---- MODULE Spec2Model ----
(***************************************************************************)
(* Model of the reflective action-mapping engine of stacktasec/circle.     *)
(*                                                                         *)
(* The repository keeps several revisions of the same packages side by     *)
(* side.  The variable rev selects the revision a behaviour runs:          *)
(*   "kit"  - kit/app/gin (unnamed/part_013:447-714) with                  *)
(*            kit/app/internal/reflect.go and GenRoute (unnamed/part_014)  *)
(*   "app"  - app/gin.go with the ioc container of unnamed/part_018        *)
(*   "core" - package core of unnamed/part_011                             *)
(*   "auth" - the app package of unnamed/part_005 (authenticator and       *)
(*            authorizer)                                                  *)
(*   "ctxfunc" - internal/kit/core/app.go:1-415 (WithCtxFunc)              *)
(*                                                                         *)
(* Specifications:                                                         *)
(*   Spec          the per-request pipeline, with the overload monitor and *)
(*                 the rate-limit bucket                                   *)
(*   SpecNames     the derivation of resource names (GenRoute)             *)
(*   SpecDiscovery the discovery of the actions of one service             *)
(*   SpecRoutes    the routes build() registers for the version groups     *)
(*   SpecBind      handlers decoding request bodies into the bind data     *)
(*   SpecTable     the route table of the kit revision                     *)
(*   SpecErrors    known errors: construction, comparison, answer          *)
(*   SpecHandlers  the handler closures fillActions posts                  *)
(*   SpecMonitor   the pipeline with the last round of the load monitor    *)
(*   SpecDisconnect the pipeline with clients that disconnect              *)
(*   SpecRegistry  Provide/Load before Run                                 *)
(*   SpecConstruct Provide/Load/Construct before Run                       *)
(*   SpecVersions  Map before Run                                          *)
(*   SpecResolve   the resolution of the services while routes are built   *)
(***************************************************************************)
EXTENDS Integers, Sequences, FiniteSets, TLC

VARIABLES
    rev,       \* the revision of the packages the behaviour runs
    opt,       \* the options given to NewApp
    act,       \* the action the modelled route was built from, its bind data
    req,       \* the requests in flight
    overload,  \* App.overload, the atomic.Value the monitor stores into
    monitor,   \* the goroutine started by watch()
    tokens,    \* the tokens left in App.limitBucket
    names,     \* a resource-name derivation (SpecNames); the last round of the
               \* monitor (SpecMonitor); the closed connections (SpecDisconnect)
    disc,      \* the discovery of one service (SpecDiscovery), a build (SpecRoutes,
               \* SpecTable, SpecHandlers, SpecResolve)
    reg        \* the container and the version table (SpecRegistry, SpecConstruct,
               \* SpecVersions)

vars == <<rev, opt, act, req, overload, monitor, tokens, names, disc, reg>>

pipeVars == <<opt, act, req, overload, monitor, tokens>>

\* the value of a variable the specification at hand does not use
Unused == "unused"

(* ------------------------------------------------------------------ *)
(* Bounds                                                              *)
(* ------------------------------------------------------------------ *)

\* number of requests in flight at once
MaxReq == 1

\* capacity handed to WithRateLimit
RateCapacity == 1

ReqIds == 1..MaxReq

(* ------------------------------------------------------------------ *)
(* HTTP status codes (net/http)                                        *)
(* ------------------------------------------------------------------ *)

StatusOK == 200
StatusBadRequest == 400
StatusUnauthorized == 401
StatusForbidden == 403
StatusNotFound == 404
StatusConflict == 409
StatusTooManyRequests == 429
StatusInternalServerError == 500
StatusNotImplemented == 501
StatusServiceUnavailable == 503
StatusGatewayTimeout == 504

\* the status table of the README
ReadmeStatusCodes == {200, 400, 401, 403, 404, 409, 500, 501, 503, 504}

(* ------------------------------------------------------------------ *)
(* Go values                                                           *)
(* ------------------------------------------------------------------ *)

\* an interface value is a (dynamic type, value) pair; the nil interface
\* has neither
NilIface == [typ |-> "nil", val |-> "nil"]

\* the pointers a method can return as its first result (static type *T)
Pointers == {"nil", "obj"}

\* context.DeadlineExceeded
DeadlineExceeded == [typ |-> "deadlineExceededError", val |-> "sentinel"]

\* the values a method can return as its second result (static type error)
ErrorValues ==
    { NilIface,
      DeadlineExceeded,
      [typ |-> "KnownError", val |-> "dup"],
      [typ |-> "*KnownError", val |-> "dup"],
      [typ |-> "*wrapError", val |-> "deadline"],
      [typ |-> "*errorString", val |-> "e1"],
      [typ |-> "*errorString", val |-> "e2"] }

\* reflect.Value.Interface(): a Value of interface kind yields the value it
\* holds (the nil interface when it holds none); a Value of pointer kind
\* yields an interface whose dynamic type is the pointer type, also when
\* the pointer is nil
ValueInterface(kind, v) ==
    IF kind = "interface" THEN v ELSE [typ |-> "*T", val |-> v]

NoBody == [key |-> "none", val |-> "none"]

Response(status, body) == [status |-> status, body |-> body]

(* ------------------------------------------------------------------ *)
(* Configuration the embedding application chooses before Run          *)
(* ------------------------------------------------------------------ *)

\* "auth" is the app revision of unnamed/part_005 (authenticator and
\* authorizer); "ctxfunc" is the first revision of internal/kit/core/app.go
\* (WithCtxFunc, no interceptors)
Revs == {"kit", "app", "core", "auth", "ctxfunc"}

\* the revisions with the load monitor, the rate limit and the context
\* timeout
LimitRevs == {"kit", "ctxfunc"}

\* the revisions with interceptors
InterceptorRevs == {"kit", "app", "auth"}

\* the revisions that read the Anonymous() attribute of a service
AnonymousRevs == {"app", "auth"}

\* what WithCtxFunc was given: nothing, a function returning a context
\* without deadline, or one returning the application's own context whose
\* deadline comes before the timeout
CtxFuncs == {"nil", "plain", "ambient"}

\* the seconds Options.Ensure installs as the timeout when none is given
DefaultCtxTimeout == 30

\* the seconds given to WithCtxTimeout
ConfiguredTimeout == 5

\* the seconds left to the deadline of the application's own context
AmbientDeadline == 1

\* Options.Ensure: the context timeout
EnsureCtxTimeout(d) == IF d = 0 THEN DefaultCtxTimeout ELSE d

\* rate limiting, overload protection and the context timeout exist in the
\* kit and ctxfunc revisions only; the core and ctxfunc revisions have no
\* interceptors
Options(rv) ==
    [ loadLimit : IF rv \in LimitRevs THEN BOOLEAN ELSE {FALSE},
      rateLimit : IF rv \in LimitRevs THEN BOOLEAN ELSE {FALSE},
      idSet     : IF rv \in InterceptorRevs THEN BOOLEAN ELSE {FALSE},
      permSet   : IF rv \in InterceptorRevs THEN BOOLEAN ELSE {FALSE},
      ctxFunc   : IF rv = "ctxfunc" THEN CtxFuncs ELSE {"nil"},
      ctxTimeout : IF rv \in LimitRevs THEN {0, ConfiguredTimeout} ELSE {0} ]

\* the action a request is routed to: its response kind (MustResponse) and
\* whether its service declares Anonymous() = true (an attribute in the
\* app revisions, a method like any other elsewhere)
RespTypeJson == "json"
RespTypeStream == "stream"

Actions(rv) ==
    [ respType  : IF rv \in {"app", "auth"} THEN {RespTypeJson}
                  ELSE {RespTypeJson, RespTypeStream},
      anonymous : IF rv \in InterceptorRevs THEN BOOLEAN ELSE {FALSE} ]

\* the deployments explored: every combination of overload protection,
\* rate limiting and the two interceptors; the options and attributes
\* that no middleware reads (the context timeout, ctxFunc, the response
\* kind, Anonymous) vary in the deployments without middleware
Deployments(rv) ==
    { d \in Options(rv) \X Actions(rv) :
        LET o == d[1]
            a == d[2]
        IN  (o.loadLimit \/ o.rateLimit) =>
               /\ o.ctxTimeout = 0
               /\ o.ctxFunc = "nil"
               /\ a.respType = RespTypeJson
               /\ ~a.anonymous }

(* ------------------------------------------------------------------ *)
(* Requests                                                            *)
(* ------------------------------------------------------------------ *)

Targets == {"action", "root", "noroute"}

\* the context a method receives: the context it was derived from, the
\* request identifier stored in it, its deadline and whether it has been
\* cancelled
NoContext == [parent |-> "none", id |-> <<"none">>, deadline |-> 0, cancelled |-> FALSE]

\* the request identifier uuid.NewString() returns for request r
NewRequestID(r) == <<"uuid", r>>

\* the context the handler builds for request r: context.Background() or
\* the result of ctxFunc, WithValue of the request identifier (none in the
\* auth revision), WithTimeout in the revisions with a timeout; deadline
\* is in seconds from the construction, 0 for none
BuildContext(rv, o, r) ==
    LET parent   == IF rv = "ctxfunc" /\ o.ctxFunc # "nil"
                       THEN o.ctxFunc ELSE "background"
        inherited == IF parent = "ambient" THEN AmbientDeadline ELSE 0
        timeout  == EnsureCtxTimeout(o.ctxTimeout)
    IN  [ parent    |-> parent,
          id        |-> IF rv = "auth" THEN <<"none">> ELSE NewRequestID(r),
          deadline  |-> IF rv \in LimitRevs
                           THEN IF inherited # 0 /\ inherited < timeout
                                   THEN inherited ELSE timeout
                           ELSE inherited,
          cancelled |-> FALSE ]

IdleRequest ==
    [ pc             |-> "idle",
      target         |-> "none",
      status         |-> 0,
      body           |-> NoBody,
      idErr          |-> FALSE,
      permErr        |-> FALSE,
      tookToken      |-> FALSE,
      idCalled       |-> FALSE,
      permCalled     |-> FALSE,
      bound          |-> "no",
      validateCalled |-> FALSE,
      valid          |-> "no",
      invoked        |-> 0,
      deadline       |-> "none",
      header         |-> <<"none">>,
      ctx            |-> NoContext,
      res            |-> "none",
      err            |-> NilIface ]

\* c.AbortWithStatus / c.Status / c.JSON: the response is written and the
\* handler returns
Reply(r, resp) ==
    req' = [req EXCEPT ![r].pc = "done",
                       ![r].status = resp.status,
                       ![r].body = resp.body]

Goto(r, stage) == req' = [req EXCEPT ![r].pc = stage]

\* the first middleware build() installed
FirstStage ==
    IF opt.loadLimit THEN "overload"
    ELSE IF opt.rateLimit THEN "ratelimit" ELSE "route"

AfterOverload == IF opt.rateLimit THEN "ratelimit" ELSE "route"

\* a request arrives at the engine
Arrive(r) ==
    /\ req[r].pc = "idle"
    /\ monitor # "crashed"
    /\ \E t \in Targets :
       \E idErr \in (IF t = "action" /\ opt.idSet THEN BOOLEAN ELSE {FALSE}) :
       \E permErr \in (IF t = "action" /\ opt.permSet THEN BOOLEAN ELSE {FALSE}) :
          req' = [req EXCEPT ![r].pc = FirstStage, ![r].target = t,
                             ![r].idErr = idErr, ![r].permErr = permErr]
    /\ UNCHANGED <<names, disc, reg, rev, opt, act, overload, monitor, tokens>>

\* an overload middleware that lets every request through
OverloadMiddlewareIgnoringFlag(r) ==
    /\ req[r].pc = "overload"
    /\ monitor # "crashed"
    /\ Goto(r, AfterOverload)
    /\ UNCHANGED <<names, disc, reg, rev, opt, act, overload, monitor, tokens>>

\* build(): the overload middleware
OverloadMiddleware(r) ==
    /\ req[r].pc = "overload"
    /\ monitor # "crashed"
    /\ IF overload = "true"
          THEN Reply(r, Response(StatusServiceUnavailable, NoBody))
          ELSE Goto(r, AfterOverload)
    /\ UNCHANGED <<names, disc, reg, rev, opt, act, overload, monitor, tokens>>

\* build(): the rate-limit middleware, limitBucket.TakeAvailable(1)
RateLimitMiddleware(r) ==
    /\ req[r].pc = "ratelimit"
    /\ monitor # "crashed"
    /\ IF tokens = 0
          THEN /\ Reply(r, Response(StatusTooManyRequests, NoBody))
               /\ UNCHANGED tokens
          ELSE /\ req' = [req EXCEPT ![r].pc = "route", ![r].tookToken = TRUE]
               /\ tokens' = tokens - 1
    /\ UNCHANGED <<names, disc, reg, rev, opt, act, overload, monitor>>

\* the bucket refills as time passes
Refill ==
    /\ opt.rateLimit
    /\ monitor # "crashed"
    /\ tokens < RateCapacity
    /\ tokens' = tokens + 1
    /\ UNCHANGED <<names, disc, reg, rev, opt, act, req, overload, monitor>>

\* gin routes the request: the action's POST route, GET "/", or NoRoute
Route(r) ==
    /\ req[r].pc = "route"
    /\ monitor # "crashed"
    /\ CASE req[r].target # "action" /\ rev = "core" ->
              \* Build() of the core revision registers neither GET "/" nor
              \* NoRoute: gin answers with its own 404
              Reply(r, Response(StatusNotFound, [key |-> "text", val |-> "404"]))
         [] req[r].target = "root" /\ rev # "core" ->
              Reply(r, Response(StatusOK, [key |-> "text", val |-> "Welcome"]))
         [] req[r].target = "noroute" /\ rev # "core" ->
              Reply(r, Response(StatusNotImplemented, NoBody))
         [] OTHER ->
              Goto(r, IF rev \in InterceptorRevs THEN "interceptors" ELSE "bind")
    /\ UNCHANGED <<names, disc, reg, rev, opt, act, overload, monitor, tokens>>

\* the outcome of the interceptor block for headers the identity
\* interceptor answers with idErr and the permission interceptor with
\* permErr: the status it aborts with (0 when the request goes on) and
\* the interceptors it called
Intercepted(status, idCalled, permCalled) ==
    [status |-> status, idCalled |-> idCalled, permCalled |-> permCalled]

\* an interceptor block that goes on when the identity interceptor fails
InterceptorsIgnoringIdentity(rv, o, a, idErr, permErr) ==
    IF o.permSet
       THEN Intercepted(IF permErr THEN StatusForbidden ELSE 0, TRUE, TRUE)
       ELSE Intercepted(0, TRUE, FALSE)

\* an interceptor block that consults the permission interceptor also
\* when no identity interceptor is configured
InterceptorsPermissionAlone(rv, o, a, idErr, permErr) ==
    IF rv \in AnonymousRevs /\ a.anonymous
       THEN Intercepted(0, FALSE, FALSE)
    ELSE IF o.idSet /\ idErr
       THEN Intercepted(StatusUnauthorized, TRUE, FALSE)
    ELSE IF o.permSet
       THEN Intercepted(IF permErr THEN StatusForbidden ELSE 0, o.idSet, TRUE)
    ELSE Intercepted(0, o.idSet, FALSE)

\* handleInterceptors (kit) and the inlined blocks of the app revisions:
\* the identity interceptor, then the permission interceptor, both only
\* when an identity interceptor is configured; the auth revision answers
\* 503 unless both are configured; the app revisions skip the block for
\* an anonymous action
Interceptors(rv, o, a, idErr, permErr) ==
    IF rv \in AnonymousRevs /\ a.anonymous
       THEN Intercepted(0, FALSE, FALSE)
    ELSE IF rv = "auth" /\ (~o.idSet \/ ~o.permSet)
       THEN Intercepted(StatusServiceUnavailable, FALSE, FALSE)
    ELSE IF ~o.idSet
       THEN Intercepted(0, FALSE, FALSE)
    ELSE IF idErr
       THEN Intercepted(StatusUnauthorized, TRUE, FALSE)
    ELSE IF o.permSet
       THEN Intercepted(IF permErr THEN StatusForbidden ELSE 0, TRUE, TRUE)
    ELSE Intercepted(0, TRUE, FALSE)

handleInterceptors(r) ==
    /\ req[r].pc = "interceptors"
    /\ monitor # "crashed"
    /\ LET out == Interceptors(rev, opt, act, req[r].idErr, req[r].permErr)
       IN  req' = [req EXCEPT
                     ![r].pc = IF out.status = 0 THEN "bind" ELSE "done",
                     ![r].status = out.status,
                     ![r].idCalled = out.idCalled,
                     ![r].permCalled = out.permCalled]
    /\ UNCHANGED <<names, disc, reg, rev, opt, act, overload, monitor, tokens>>

\* c.ShouldBind(&req): the body is decoded into the action's bind data
ShouldBind(r) ==
    /\ req[r].pc = "bind"
    /\ monitor # "crashed"
    /\ \E ok \in BOOLEAN :
          IF ok
             THEN req' = [req EXCEPT ![r].pc = "validate", ![r].bound = "ok"]
             ELSE req' = [req EXCEPT ![r].pc = "done",
                                     ![r].status = StatusBadRequest,
                                     ![r].bound = "failed"]
    /\ UNCHANGED <<names, disc, reg, rev, opt, act, overload, monitor, tokens>>

\* a validation stage that goes on to the method whatever Validate said
ValidateIgnoringError(r) ==
    /\ req[r].pc = "validate"
    /\ monitor # "crashed"
    /\ \E ok \in BOOLEAN :
          req' = [req EXCEPT ![r].pc = "context",
                             ![r].validateCalled = TRUE,
                             ![r].valid = IF ok THEN "ok" ELSE "failed"]
    /\ UNCHANGED <<names, disc, reg, rev, opt, act, overload, monitor, tokens>>

\* i.Validate() on the bound payload
Validate(r) ==
    /\ req[r].pc = "validate"
    /\ monitor # "crashed"
    /\ \E ok \in BOOLEAN :
          IF ok
             THEN req' = [req EXCEPT ![r].pc = "context",
                                     ![r].validateCalled = TRUE,
                                     ![r].valid = "ok"]
             ELSE req' = [req EXCEPT ![r].pc = "done",
                                     ![r].status = StatusBadRequest,
                                     ![r].validateCalled = TRUE,
                                     ![r].valid = "failed"]
    /\ UNCHANGED <<names, disc, reg, rev, opt, act, overload, monitor, tokens>>

\* the context is built, the X-Request-ID header is set and
\* action.MethodValue.Call starts: the handler blocks in the method
Call(r) ==
    /\ req[r].pc = "context"
    /\ monitor # "crashed"
    /\ LET ctx == BuildContext(rev, opt, r)
       IN  req' = [req EXCEPT ![r].pc = "running",
                              ![r].invoked = @ + 1,
                              ![r].ctx = ctx,
                              ![r].header = ctx.id,
                              ![r].deadline = IF ctx.deadline # 0
                                                 THEN "armed" ELSE "none"]
    /\ UNCHANGED <<names, disc, reg, rev, opt, act, overload, monitor, tokens>>

\* the deadline of the context passes while the method is still running
DeadlineFires(r) ==
    /\ req[r].pc = "running"
    /\ monitor # "crashed"
    /\ req[r].deadline = "armed"
    /\ req' = [req EXCEPT ![r].deadline = "fired"]
    /\ UNCHANGED <<names, disc, reg, rev, opt, act, overload, monitor, tokens>>

(* ------------------------------------------------------------------ *)
(* After the method returns: error classification and serialization    *)
(* ------------------------------------------------------------------ *)

\* errValue.(KnownError): the type assertion to the value type of the
\* revision's known error (internal.KnownError, internalError, knownError)
IsKnownError(errValue) == errValue.typ = "KnownError"

ErrorBody(errValue) == [key |-> "error", val |-> errValue.val]

\* an error mapping without the deadline branch
ClassifyErrorNoDeadline(rv, errValue) ==
    IF IsKnownError(errValue)
       THEN Response(StatusConflict, ErrorBody(errValue))
       ELSE Response(StatusInternalServerError, NoBody)

\* a handler that sends the text of an unclassified error with the 500
ClassifyErrorLeaking(rv, errValue) ==
    IF rv # "core" /\ errValue = DeadlineExceeded
       THEN Response(StatusGatewayTimeout, NoBody)
       ELSE IF IsKnownError(errValue)
               THEN Response(StatusConflict, ErrorBody(errValue))
               ELSE Response(StatusInternalServerError, ErrorBody(errValue))

\* the branch taken on errValue != nil; the core revision has no
\* deadline branch
ClassifyError(rv, errValue) ==
    IF rv # "core" /\ errValue = DeadlineExceeded
       THEN Response(StatusGatewayTimeout, NoBody)
       ELSE IF IsKnownError(errValue)
               THEN Response(StatusConflict, ErrorBody(errValue))
               ELSE Response(StatusInternalServerError, NoBody)

\* file.Stat() on the returned pointer: it succeeds, fails, or panics (a
\* nil receiver); gin.Default() recovers a panic as 500
StatOutcomes == {"ok", "err", "panic"}

ResultKey(rv) == IF rv = "core" THEN "data" ELSE "result"

\* the branch taken on errValue == nil
Serialize(rv, respType, result, stat) ==
    IF respType = RespTypeStream
       THEN IF stat = "ok"
               THEN Response(StatusOK, [key |-> "stream", val |-> result.val])
               ELSE Response(StatusInternalServerError, NoBody)
       ELSE IF result = NilIface
               THEN Response(StatusNotFound, NoBody)
               ELSE Response(StatusOK, [key |-> ResultKey(rv), val |-> result.val])

\* the handler of fillActions from rtnList on: p is the pointer and e the
\* error the method returned
HandleReturn(rv, respType, p, e, stat) ==
    LET errValue == ValueInterface("interface", e)
        result   == ValueInterface("ptr", p)
    IN  IF errValue # NilIface
           THEN ClassifyError(rv, errValue)
           ELSE Serialize(rv, respType, result, stat)

\* the method returns (p, e); the handler answers and returns
MethodReturns(r) ==
    /\ req[r].pc = "running"
    /\ monitor # "crashed"
    /\ \E p \in Pointers, e \in ErrorValues, stat \in StatOutcomes :
          LET resp == HandleReturn(rev, act.respType, p, e, stat)
          IN  req' = [req EXCEPT ![r].pc = "done",
                                 ![r].status = resp.status,
                                 ![r].body = resp.body,
                                 ![r].ctx.cancelled = (rev \in LimitRevs),
                                 ![r].res = p,
                                 ![r].err = e]
    /\ UNCHANGED <<names, disc, reg, rev, opt, act, overload, monitor, tokens>>

\* the answered request leaves; the next request of the client takes its
\* place
Forget(r) ==
    /\ req[r].pc = "done"
    /\ monitor # "crashed"
    /\ req' = [req EXCEPT ![r] = IdleRequest]
    /\ UNCHANGED <<names, disc, reg, rev, opt, act, overload, monitor, tokens>>

(* ------------------------------------------------------------------ *)
(* The load monitor (kit revision)                                     *)
(* ------------------------------------------------------------------ *)

RoundOutcomes == {"cpuErr", "cpuHigh", "memErr", "memHigh", "normal"}

\* the value one round of watch() stores, "keep" when it stores none
RoundStore(o) ==
    CASE o = "cpuErr"  -> "false"
      [] o = "cpuHigh" -> "true"
      [] o = "memErr"  -> "false"
      [] o = "memHigh" -> "true"
      [] OTHER         -> "keep"

\* one tick of the monitor goroutine
watchRound ==
    /\ monitor = "running"
    /\ \E o \in RoundOutcomes :
          overload' = IF RoundStore(o) = "keep" THEN overload ELSE RoundStore(o)
    /\ UNCHANGED <<names, disc, reg, rev, opt, act, req, monitor, tokens>>

\* the goroutine panics: recover() logs it and the goroutine ends; in the
\* ctxfunc revision the log call is zlog.Panicf, which panics again in
\* the deferred function and ends the process
watchPanic ==
    /\ monitor = "running"
    /\ monitor' = IF rev = "ctxfunc" THEN "crashed" ELSE "dead"
    /\ UNCHANGED <<names, disc, reg, rev, opt, act, req, overload, tokens>>

(* ------------------------------------------------------------------ *)
(* The specification of the request pipeline                           *)
(* ------------------------------------------------------------------ *)

Init ==
    /\ rev \in Revs
    /\ \E d \in Deployments(rev) : opt = d[1] /\ act = d[2]
    /\ req = [r \in ReqIds |-> IdleRequest]
    /\ overload = "unset"
    /\ monitor = IF opt.loadLimit THEN "running" ELSE "off"
    /\ tokens = IF opt.rateLimit THEN RateCapacity ELSE 0
    /\ names = Unused
    /\ disc = Unused
    /\ reg = Unused

Next ==
    \/ \E r \in ReqIds : Arrive(r)
    \/ \E r \in ReqIds : OverloadMiddleware(r)
    \/ \E r \in ReqIds : RateLimitMiddleware(r)
    \/ \E r \in ReqIds : Route(r)
    \/ \E r \in ReqIds : handleInterceptors(r)
    \/ \E r \in ReqIds : ShouldBind(r)
    \/ \E r \in ReqIds : Validate(r)
    \/ \E r \in ReqIds : Call(r)
    \/ \E r \in ReqIds : DeadlineFires(r)
    \/ \E r \in ReqIds : MethodReturns(r)
    \/ \E r \in ReqIds : Forget(r)
    \/ Refill
    \/ watchRound
    \/ watchPanic

Spec == Init /\ [][Next]_vars

(* ------------------------------------------------------------------ *)
(* Claims about the request pipeline                                   *)
(* ------------------------------------------------------------------ *)

Answered(r) == req[r].pc = "done"

Returned(r) == Answered(r) /\ req[r].invoked > 0

\* C1: for an action of response kind json, a method returning a nil
\* result pointer with a nil error is answered 404 with an empty body.
C1_NilResultIs404 ==
    \A r \in ReqIds :
        ( /\ Returned(r)
          /\ act.respType = RespTypeJson
          /\ req[r].res = "nil"
          /\ req[r].err = NilIface )
        => (req[r].status = StatusNotFound /\ req[r].body = NoBody)

\* C2: the stages run in the order interceptors, binding, validation,
\* context, invocation; a request whose binding fails is answered 400
\* without Validate or the method being called, a request whose Validate
\* fails is answered 400 without the method being called.
C2_BindAndValidateShortCircuit ==
    \A r \in ReqIds :
        /\ req[r].bound = "failed"
              => ( /\ Answered(r)
                   /\ req[r].status = StatusBadRequest
                   /\ ~req[r].validateCalled
                   /\ req[r].invoked = 0 )
        /\ req[r].valid = "failed"
              => ( /\ Answered(r)
                   /\ req[r].status = StatusBadRequest
                   /\ req[r].invoked = 0 )
        /\ req[r].validateCalled => req[r].bound = "ok"
        /\ req[r].invoked > 0 => (req[r].bound = "ok" /\ req[r].valid = "ok")
        /\ req[r].invoked <= 1
        /\ (req[r].bound # "no" /\ opt.idSet /\ ~act.anonymous)
              => req[r].idCalled

C2_Witness ==
    \E r \in ReqIds :
        /\ Answered(r)
        /\ req[r].valid = "failed"
        /\ req[r].status = StatusBadRequest
        /\ req[r].idCalled

\* C3 as claimed: a request whose method was still running when the
\* context timeout elapsed is answered 504.
C3_TimeoutAlways504 ==
    \A r \in ReqIds :
        (Answered(r) /\ req[r].deadline = "fired")
            => req[r].status = StatusGatewayTimeout

\* C3 as amended: while the method runs no response is sent; once it has
\* returned after the timeout elapsed, the answer is 504 exactly when the
\* error it returned is the deadline-exceeded sentinel.
C3_TimeoutIs504OnlyOnSentinel ==
    \A r \in ReqIds :
        /\ req[r].pc = "running" => req[r].status = 0
        /\ (Answered(r) /\ req[r].deadline = "fired")
              => ( req[r].status = StatusGatewayTimeout
                     <=> req[r].err = DeadlineExceeded )

C3_Witness ==
    \E r \in ReqIds :
        /\ Answered(r)
        /\ req[r].deadline = "fired"
        /\ req[r].err = DeadlineExceeded
        /\ req[r].status = StatusGatewayTimeout

\* C4: an invocation that returns a non-nil error is answered 504 when
\* the error is the deadline-exceeded sentinel, else 409 with the error in
\* the body when it is a known error value, else 500; the first return
\* value plays no part.
C4_ErrorPriority ==
    \A r \in ReqIds :
        (Returned(r) /\ req[r].err # NilIface)
            => IF req[r].err = DeadlineExceeded
                  THEN req[r].status = StatusGatewayTimeout
                  ELSE IF req[r].err.typ = "KnownError"
                          THEN /\ req[r].status = StatusConflict
                               /\ req[r].body = [key |-> "error",
                                                 val |-> req[r].err.val]
                          ELSE req[r].status = StatusInternalServerError

\* C5: every response carries one of the ten status codes of the README.
C5_OnlyReadmeStatusCodes ==
    \A r \in ReqIds :
        Answered(r) => req[r].status \in ReadmeStatusCodes

\* the request was answered by a middleware, before its handler ran
ShedByMiddleware(r) ==
    /\ req[r].pc = "done"
    /\ \/ req[r].status = StatusTooManyRequests
       \/ req[r].status = StatusServiceUnavailable /\ rev \in LimitRevs

\* the handler of the action route has run its interceptor block
InHandler(r) ==
    /\ req[r].target = "action"
    /\ req[r].pc \in {"bind", "validate", "context", "running", "done"}
    /\ ~ShedByMiddleware(r)

NothingAfterInterceptors(r) ==
    /\ req[r].bound = "no"
    /\ ~req[r].validateCalled
    /\ req[r].invoked = 0

\* C11: for a non-anonymous action with an identity interceptor
\* configured (kit and app revisions), headers the identity interceptor
\* rejects are answered 401 and neither the permission interceptor nor
\* binding, validation or the method runs; headers it accepts and the
\* permission interceptor rejects are answered 403 and binding,
\* validation and the method do not run.
C11_Interceptors401Then403 ==
    \A r \in ReqIds :
        (InHandler(r) /\ rev \in {"kit", "app"} /\ ~act.anonymous /\ opt.idSet)
            => /\ req[r].idCalled
               /\ req[r].idErr
                     => /\ Answered(r)
                        /\ req[r].status = StatusUnauthorized
                        /\ ~req[r].permCalled
                        /\ NothingAfterInterceptors(r)
               /\ (~req[r].idErr /\ opt.permSet /\ req[r].permErr)
                     => /\ Answered(r)
                        /\ req[r].status = StatusForbidden
                        /\ req[r].permCalled
                        /\ NothingAfterInterceptors(r)

\* a request the identity interceptor accepted and the permission
\* interceptor rejected
C11_Witness ==
    \E r \in ReqIds :
        /\ rev \in {"kit", "app"}
        /\ ~act.anonymous
        /\ Answered(r)
        /\ req[r].idCalled /\ ~req[r].idErr
        /\ req[r].permCalled /\ req[r].permErr
        /\ req[r].status = StatusForbidden

\* the action is subject to the interceptor block of its revision
Guarded == rev \in InterceptorRevs /\ ~(rev \in AnonymousRevs /\ act.anonymous)

\* C12 (as stated): for a non-anonymous action with a permission
\* interceptor configured, a request the permission interceptor rejects
\* is answered 403 and the method is not invoked, whatever the identity
\* interceptor configuration, none included.
C12_PermissionRejectIs403 ==
    \A r \in ReqIds :
        (InHandler(r) /\ rev \in {"kit", "app"} /\ ~act.anonymous
            /\ opt.permSet /\ req[r].permErr /\ ~(opt.idSet /\ req[r].idErr))
            => /\ Answered(r)
               /\ req[r].status = StatusForbidden
               /\ req[r].invoked = 0

\* C12 (amended): the permission interceptor is consulted only after a
\* configured identity interceptor accepted the headers; then its
\* rejection is answered 403 and the method is not invoked.  With no
\* identity interceptor configured the permission interceptor is never
\* called and no request is answered 403.
C12_PermissionOnlyAfterIdentity ==
    \A r \in ReqIds :
        (InHandler(r) /\ rev \in {"kit", "app"} /\ Guarded)
            => /\ (opt.idSet /\ ~req[r].idErr /\ opt.permSet /\ req[r].permErr)
                     => /\ Answered(r)
                        /\ req[r].status = StatusForbidden
                        /\ req[r].invoked = 0
               /\ req[r].permCalled
                     => req[r].idCalled /\ ~req[r].idErr /\ opt.permSet
               /\ ~opt.idSet
                     => /\ ~req[r].permCalled
                        /\ req[r].status # StatusForbidden

\* a request the permission interceptor would reject is served, no
\* identity interceptor being configured
C12_Witness ==
    \E r \in ReqIds :
        /\ rev \in {"kit", "app"}
        /\ ~act.anonymous
        /\ ~opt.idSet /\ opt.permSet /\ req[r].permErr
        /\ Returned(r)
        /\ ~req[r].permCalled

\* C13: a request to a non-anonymous action that arrives when no
\* authentication callback is configured is answered 503 and the method
\* is not invoked.
C13_MissingCallbackIs503 ==
    \A r \in ReqIds :
        (InHandler(r) /\ rev \in {"app", "auth"} /\ ~act.anonymous
            /\ ~opt.idSet)
            => /\ Answered(r)
               /\ req[r].status = StatusServiceUnavailable
               /\ req[r].invoked = 0

\* C14: for an anonymous action neither interceptor is called, and no
\* request is answered by the interceptor block, whatever interceptors
\* are configured.
C14_AnonymousSkipsInterceptors ==
    \A r \in ReqIds :
        (InHandler(r) /\ rev \in InterceptorRevs /\ act.anonymous)
            => /\ ~req[r].idCalled
               /\ ~req[r].permCalled
               /\ req[r].status \notin {StatusUnauthorized, StatusForbidden,
                                        StatusServiceUnavailable}

\* nothing of the pipeline has run for request r
NothingRan(r) ==
    /\ ~req[r].tookToken
    /\ ~req[r].idCalled
    /\ ~req[r].permCalled
    /\ NothingAfterInterceptors(r)

\* request r leaves the overload middleware in this step
LeavesOverload(r) == req[r].pc = "overload" /\ req'[r].pc # "overload"

\* C17: with overload protection enabled the overload middleware is the
\* first stage.  A request that reads the flag as true is answered 503
\* there: no token is taken and no interceptor, binding, validation or
\* method has run or runs for it.  A request that reads the flag as unset
\* or false goes on to the next stage.
C17_OverloadShedsFirst ==
    /\ [](\A r \in ReqIds :
            /\ req[r].pc = "overload" => opt.loadLimit /\ NothingRan(r)
            /\ (rev \in LimitRevs /\ Answered(r)
                   /\ req[r].status = StatusServiceUnavailable)
                  => opt.loadLimit /\ NothingRan(r))
    /\ [][\A r \in ReqIds :
            /\ (req[r].pc = "idle" /\ req'[r].pc # "idle" /\ opt.loadLimit)
                  => req'[r].pc = "overload"
            /\ LeavesOverload(r)
                  => /\ tokens' = tokens
                     /\ IF overload = "true"
                           THEN /\ req'[r].pc = "done"
                                /\ req'[r].status = StatusServiceUnavailable
                           ELSE /\ req'[r].pc = AfterOverload
                                /\ req'[r].status = 0]_vars

\* a request shed by the overload middleware while the bucket is full
C17_Witness ==
    \E r \in ReqIds :
        /\ opt.loadLimit /\ opt.rateLimit
        /\ overload = "true"
        /\ Answered(r)
        /\ req[r].status = StatusServiceUnavailable
        /\ tokens = RateCapacity
        /\ NothingRan(r)

\* C18: when the monitor goroutine panics, the panic is recovered and the
\* overloaded flag is left not-overloaded, so that no later request is
\* shed because of a value stored before the panic.
C18_MonitorPanicClearsFlag ==
    /\ monitor # "crashed"
    /\ monitor = "dead" => overload # "true"

\* C19: every response of the handler of an action route carries the
\* X-Request-ID header with the identifier generated for the request,
\* and the context of an invoked method stores the same identifier.
C19_RequestIdOnEveryResponse ==
    \A r \in ReqIds :
        /\ (InHandler(r) /\ Answered(r) /\ rev \in {"kit", "auth"})
              => req[r].header = NewRequestID(r)
        /\ (rev \in {"kit", "auth"} /\ req[r].invoked > 0)
              => /\ req[r].ctx.id = NewRequestID(r)
                 /\ req[r].ctx.id = req[r].header

\* C20: the context the method receives is derived from a fresh
\* background context, its deadline is the configured timeout (30 s by
\* default) from its construction, and it is cancelled once the handler
\* has returned.
C20_FreshBoundedContext ==
    \A r \in ReqIds :
        (rev \in {"app", "ctxfunc"} /\ req[r].invoked > 0)
            => /\ req[r].ctx.parent = "background"
               /\ req[r].ctx.deadline = EnsureCtxTimeout(opt.ctxTimeout)
               /\ Answered(r) => req[r].ctx.cancelled

\* the method of request r returned an error that is neither a known
\* error nor the deadline sentinel
ReturnedUnclassified(r) ==
    /\ Returned(r)
    /\ req[r].err # NilIface
    /\ req[r].err # DeadlineExceeded
    /\ ~IsKnownError(req[r].err)

\* C22: whatever unclassified error the method returns, the response is
\* 500 with an empty body, so the responses to two requests whose methods
\* returned different unclassified errors are identical.
C22_InternalErrorsMasked ==
    \A r \in ReqIds :
        ReturnedUnclassified(r)
            => /\ req[r].status = StatusInternalServerError
               /\ req[r].body = NoBody
               /\ \A q \in ReqIds :
                     ReturnedUnclassified(q)
                         => /\ req[q].status = req[r].status
                            /\ req[q].body = req[r].body

\* a method returned the plain error "e2" and the request was answered
C22_Witness ==
    \E r \in ReqIds :
        /\ ReturnedUnclassified(r)
        /\ req[r].err = [typ |-> "*errorString", val |-> "e2"]
        /\ req[r].status = StatusInternalServerError

(* ------------------------------------------------------------------ *)
(* SpecMonitor: the request pipeline under overload protection, with   *)
(* the outcome of the monitor's last round kept in names               *)
(* ------------------------------------------------------------------ *)

NoRound == "none"

MonitorInit ==
    /\ rev \in LimitRevs
    /\ \E d \in Deployments(rev) :
          /\ d[1].loadLimit /\ ~d[1].rateLimit
          /\ opt = d[1] /\ act = d[2]
    /\ req = [r \in ReqIds |-> IdleRequest]
    /\ overload = "unset"
    /\ monitor = "running"
    /\ tokens = 0
    /\ names = NoRound
    /\ disc = Unused
    /\ reg = Unused

\* one tick of the monitor goroutine, from the samples to the continue
\* or the end of the loop body
watchTick ==
    /\ monitor = "running"
    /\ \E o \in RoundOutcomes :
          /\ overload' = IF RoundStore(o) = "keep" THEN overload ELSE RoundStore(o)
          /\ names' = o
    /\ UNCHANGED <<disc, reg, rev, opt, act, req, monitor, tokens>>

MonitorNext ==
    \/ \E r \in ReqIds : Arrive(r)
    \/ \E r \in ReqIds : OverloadMiddleware(r)
    \/ \E r \in ReqIds : Route(r)
    \/ \E r \in ReqIds : handleInterceptors(r)
    \/ \E r \in ReqIds : ShouldBind(r)
    \/ \E r \in ReqIds : Validate(r)
    \/ \E r \in ReqIds : Call(r)
    \/ \E r \in ReqIds : DeadlineFires(r)
    \/ \E r \in ReqIds : MethodReturns(r)
    \/ \E r \in ReqIds : Forget(r)
    \/ watchTick
    \/ watchPanic

SpecMonitor == MonitorInit /\ [][MonitorNext]_vars

\* C29: after every completed round of the monitor the overloaded flag
\* is the outcome of that round: set when the average CPU or the memory
\* reading exceeded its threshold, not set otherwise; after a round that
\* read both within their thresholds the overload middleware sheds no
\* request
C29_FlagIsLastRoundOutcome ==
    /\ [](names \in RoundOutcomes =>
             ((overload = "true") <=> (names \in {"cpuHigh", "memHigh"})))
    /\ [][\A r \in ReqIds :
            (names = "normal" /\ req[r].pc = "overload" /\ req'[r].pc = "done")
               => req'[r].status # StatusServiceUnavailable]_vars

(* ------------------------------------------------------------------ *)
(* SpecDisconnect: the request pipeline with clients that close their  *)
(* connection; names[r] tells whether net/http has cancelled the       *)
(* context of the request, c.Request.Context(), for that reason        *)
(* ------------------------------------------------------------------ *)

DisconnectInit ==
    /\ rev \in LimitRevs
    /\ \E d \in Deployments(rev) :
          /\ ~d[1].loadLimit /\ ~d[1].rateLimit
          /\ opt = d[1] /\ act = d[2]
    /\ req = [r \in ReqIds |-> IdleRequest]
    /\ overload = "unset"
    /\ monitor = "off"
    /\ tokens = 0
    /\ names = [r \in ReqIds |-> FALSE]
    /\ disc = Unused
    /\ reg = Unused

\* the client closes the connection while the method runs: net/http
\* cancels c.Request.Context(); the handler's context was derived from
\* context.Background() or from the result of ctxFunc and is left as it is
ClientDisconnects(r) ==
    /\ req[r].pc = "running"
    /\ ~names[r]
    /\ names' = [names EXCEPT ![r] = TRUE]
    /\ UNCHANGED <<disc, reg, rev, pipeVars>>

\* the client connects again once the handler has returned
Reconnect(r) ==
    /\ req[r].pc = "idle"
    /\ names[r]
    /\ names' = [names EXCEPT ![r] = FALSE]
    /\ UNCHANGED <<disc, reg, rev, pipeVars>>

DisconnectNext ==
    \/ \E r \in ReqIds : ~names[r] /\ Arrive(r)
    \/ \E r \in ReqIds : Route(r)
    \/ \E r \in ReqIds : handleInterceptors(r)
    \/ \E r \in ReqIds : ShouldBind(r)
    \/ \E r \in ReqIds : Validate(r)
    \/ \E r \in ReqIds : Call(r)
    \/ \E r \in ReqIds : DeadlineFires(r)
    \/ \E r \in ReqIds : MethodReturns(r)
    \/ \E r \in ReqIds : Forget(r)
    \/ \E r \in ReqIds : ClientDisconnects(r)
    \/ \E r \in ReqIds : Reconnect(r)

SpecDisconnect == DisconnectInit /\ [][DisconnectNext]_vars

\* C30: when the client disconnects while the method runs, the context
\* the method received is cancelled before its deadline: a method that
\* returns after the disconnect and before the deadline returns with its
\* context cancelled
C30_DisconnectCancelsContext ==
    [][\A r \in ReqIds :
         ( /\ names[r]
           /\ req[r].pc = "running"
           /\ req[r].deadline # "fired"
           /\ req'[r].pc = "done" )
            => req[r].ctx.cancelled]_vars

(* ------------------------------------------------------------------ *)
(* Strings, as sequences of one-character strings                      *)
(* ------------------------------------------------------------------ *)

LowerLetters == {"a", "s", "v"}
UpperLetters == {"A", "S", "V"}
Digits == {"1"}

Lower(c) ==
    CASE c = "A" -> "a"
      [] c = "S" -> "s"
      [] c = "V" -> "v"
      [] OTHER   -> c

\* strings.ToLower
ToLower(s) == [i \in DOMAIN s |-> Lower(s[i])]

\* strings.HasSuffix
HasSuffix(s, suffix) ==
    /\ Len(s) >= Len(suffix)
    /\ SubSeq(s, Len(s) - Len(suffix) + 1, Len(s)) = suffix

\* strings.HasPrefix
HasPrefix(s, prefix) ==
    /\ Len(s) >= Len(prefix)
    /\ SubSeq(s, 1, Len(prefix)) = prefix

\* strings.ReplaceAll(s, old, ""): every non-overlapping occurrence of
\* old, found from the left, is removed
RECURSIVE ReplaceAllWithEmpty(_, _)
ReplaceAllWithEmpty(s, old) ==
    IF old = <<>> \/ Len(s) < Len(old)
       THEN s
       ELSE IF HasPrefix(s, old)
               THEN ReplaceAllWithEmpty(SubSeq(s, Len(old) + 1, Len(s)), old)
               ELSE <<s[1]>> \o ReplaceAllWithEmpty(Tail(s), old)

\* what strcase.ToSnake writes for the character at position i
SnakeAt(s, i) ==
    LET v        == s[i]
        vIsCap   == v \in UpperLetters
        vIsLow   == v \in LowerLetters
        vIsNum   == v \in Digits
        hasNext  == i + 1 <= Len(s)
        next     == IF hasNext THEN s[i + 1] ELSE " "
        nextIsCap == next \in UpperLetters
        nextIsLow == next \in LowerLetters
        nextIsNum == next \in Digits
        changes  == \/ vIsCap /\ (nextIsLow \/ nextIsNum)
                    \/ vIsLow /\ (nextIsCap \/ nextIsNum)
                    \/ vIsNum /\ (nextIsCap \/ nextIsLow)
        prevIsCap == i > 1 /\ s[i - 1] \in UpperLetters
    IN  IF hasNext /\ changes
           THEN (IF vIsCap /\ nextIsLow /\ prevIsCap THEN <<"_">> ELSE <<>>)
                \o <<Lower(v)>>
                \o (IF vIsLow \/ vIsNum \/ nextIsNum THEN <<"_">> ELSE <<>>)
           ELSE IF v \in {" ", "_", "-", "."} THEN <<"_">> ELSE <<Lower(v)>>

RECURSIVE SnakeFrom(_, _)
SnakeFrom(s, i) ==
    IF i > Len(s) THEN <<>> ELSE SnakeAt(s, i) \o SnakeFrom(s, i + 1)

\* strcase.ToSnake
ToSnake(s) == SnakeFrom(s, 1)

\* the loop of GenRoute: the first suffix of the list that lr ends with is
\* removed with strings.ReplaceAll
RECURSIVE StripFirstSuffix(_, _, _)
StripFirstSuffix(lr, suffixes, i) ==
    IF i > Len(suffixes)
       THEN lr
       ELSE IF HasSuffix(lr, suffixes[i])
               THEN ReplaceAllWithEmpty(lr, suffixes[i])
               ELSE StripFirstSuffix(lr, suffixes, i + 1)

\* the suffix constant of the app revisions; "Sv" stands for "Service"
suffixService == <<"S", "v">>

\* the panic of makeReflect on a type name without the suffix
MustEndsWithService == <<"panic: must ends with Service">>

\* makeReflect of the app revision names a service: the type name must
\* end with suffixService, every occurrence of which is removed
makeReflectName(typeName) ==
    IF ~HasSuffix(typeName, suffixService)
       THEN MustEndsWithService
       ELSE ToSnake(ReplaceAllWithEmpty(typeName, suffixService))

\* a derivation that does not lower-case the resource name
GenRouteCaseSensitive(suffixes, resource, action) ==
    <<ToSnake(StripFirstSuffix(resource, suffixes, 1)), ToSnake(action)>>

\* GenRoute(suffixes, resource, action): the service name and the method
\* name of a route
GenRoute(suffixes, resource, action) ==
    <<ToSnake(StripFirstSuffix(ToLower(resource), suffixes, 1)), ToSnake(action)>>

(* ------------------------------------------------------------------ *)
(* SpecNames: resource names derived by GenRoute                       *)
(* ------------------------------------------------------------------ *)

\* longest type name tried
MaxNameLen == 3

NameChars == LowerLetters \cup UpperLetters \cup Digits

\* Go identifiers: a letter first, then letters and digits
TypeNames ==
    { n \in UNION { [1..k -> NameChars] : k \in 1..MaxNameLen } :
        n[1] \in LowerLetters \cup UpperLetters }

\* the lists given to WithSuffixes; "sv" and "a" stand for suffixes such
\* as the default "service", "handler", "usecase", "controller"
SuffixLists ==
    { << <<"s", "v">>, <<"a">> >>,
      << <<"v">>, <<"s", "v">> >> }

MethodNames == { <<"S", "a">>, <<"A", "V", "s">> }

EndsWithSuffix(s, suffixes) ==
    \E i \in 1..Len(suffixes) : HasSuffix(s, suffixes[i])

\* the type names that differ from n in letter case only
RECURSIVE CaseVariantsFrom(_, _)
CaseVariantsFrom(n, i) ==
    IF i > Len(n)
       THEN {<<>>}
       ELSE { <<c>> \o t : c \in {d \in NameChars : Lower(d) = Lower(n[i])},
                            t \in CaseVariantsFrom(n, i + 1) }

CaseVariants(n) == CaseVariantsFrom(n, 1)

NamesStart(sl, n, m, a) ==
    [ step     |-> "start",
      suffixes |-> sl,
      resource |-> n,
      other    |-> m,
      action   |-> a,
      svc      |-> <<>>,
      svcOther |-> <<>>,
      method   |-> <<>>,
      again    |-> <<>> ]

\* the revisions that derive resource names: GenRoute under MakeReflect
\* (kit) and makeReflect of app/gin.go (app)
NameRevs == {"kit", "app"}

ServiceName(rv, suffixes, typeName) ==
    IF rv = "kit"
       THEN GenRoute(suffixes, typeName, <<>>)[1]
       ELSE makeReflectName(typeName)

NamesInit ==
    /\ rev \in NameRevs
    /\ \E sl \in (IF rev = "kit" THEN SuffixLists ELSE {<<suffixService>>}) :
       \E n \in TypeNames, a \in MethodNames :
          \E m \in CaseVariants(n) : names = NamesStart(sl, n, m, a)
    /\ opt = Unused /\ act = Unused /\ req = Unused
    /\ overload = Unused /\ monitor = Unused /\ tokens = Unused
    /\ disc = Unused /\ reg = Unused

\* MakeReflect names the actions of a service and of a service whose type
\* name differs from it in letter case only
DeriveNames ==
    /\ names.step = "start"
    /\ names' = [names EXCEPT
                   !.step = "derived",
                   !.svc = ServiceName(rev, names.suffixes, names.resource),
                   !.method = GenRoute(names.suffixes, names.resource, names.action)[2],
                   !.svcOther = ServiceName(rev, names.suffixes, names.other)]
    /\ UNCHANGED <<rev, pipeVars, disc, reg>>

\* the derived name is derived from again
RederiveName ==
    /\ names.step = "derived"
    /\ names.svc # MustEndsWithService
    /\ names' = [names EXCEPT
                   !.step = "rederived",
                   !.again = ServiceName(rev, names.suffixes, names.svc)]
    /\ UNCHANGED <<rev, pipeVars, disc, reg>>

NamesNext == DeriveNames \/ RederiveName

SpecNames == NamesInit /\ [][NamesNext]_vars

RECURSIVE TrimFirstSuffix(_, _, _)
TrimFirstSuffix(lr, suffixes, i) ==
    IF i > Len(suffixes)
       THEN lr
       ELSE IF HasSuffix(lr, suffixes[i])
               THEN SubSeq(lr, 1, Len(lr) - Len(suffixes[i]))
               ELSE TrimFirstSuffix(lr, suffixes, i + 1)

\* C23: the derived resource name is the lower-cased type name with only
\* the trailing occurrence of the first list suffix it ends with removed,
\* other occurrences of that suffix inside the name being kept, then
\* converted to snake_case.
C23_OnlyTrailingSuffixRemoved ==
    (rev = "kit" /\ names.step \in {"derived", "rederived"})
        => names.svc =
              ToSnake(TrimFirstSuffix(ToLower(names.resource), names.suffixes, 1))

(* ------------------------------------------------------------------ *)
(* SpecDiscovery: the actions and routes of one service                *)
(* ------------------------------------------------------------------ *)

\* "kit"    MakeReflect of kit/app/internal/reflect.go
\* "app"    makeReflect of app/gin.go
\* "strict" makeReflect of app/reflect.go
DiscoveryRevs == {"kit", "app", "strict", "core"}

\* most methods a service type has
MaxMethods == 2

\* the suffix list Options.Ensure installs; "sv" and "a" stand for
\* "service", "handler", "usecase", "controller"
DefaultSuffixes == << <<"s", "v">>, <<"a">> >>

\* what reflection shows of a method: the number of its parameters (with
\* the receiver) and results, whether In(1) is assignable to
\* context.Context, whether a pointer to In(2) implements Request, what
\* Out(0) is, whether Out(1) implements error
ConformingTypes ==
    [ctxOK : {TRUE}, reqOK : {TRUE}, resp : {"ptrStruct"}, errOK : {TRUE}]

AnyTypes ==
    [ ctxOK : BOOLEAN, reqOK : BOOLEAN,
      resp : {"ptrStruct", "ptrFile", "other"}, errOK : BOOLEAN ]

MethodShapes ==
    { [numIn |-> a[1], numOut |-> a[2], types |-> t] :
        a \in {<<2, 2>>, <<3, 1>>, <<2, 1>>}, t \in ConformingTypes }
    \cup
    { [numIn |-> 3, numOut |-> 2, types |-> t] : t \in AnyTypes }

\* the name of the i-th method of a type: "As", "Ass", ...
MethodNameOf(i) == <<"A">> \o [j \in 1..i |-> "s"]

ServiceTypeNames ==
    { <<"A", "S", "v">>, <<"A", "s", "v">>, <<"S">>, <<"V", "a">> }

ServiceTypes(rv) ==
    [ typeName : ServiceTypeNames,
      methods  : UNION { [1..k -> MethodShapes] : k \in 0..MaxMethods },
      omitted  : IF rv \in {"kit", "core"} THEN {FALSE} ELSE BOOLEAN ]

ArityOK(m) == m.numIn = 3 /\ m.numOut = 2

SatisfyContext(m) == m.types.ctxOK

SatisfyRequest(m) == m.types.reqOK

\* MustResponse panics unless Out(0) is a pointer to a struct
ResponseOK(m) == m.types.resp \in {"ptrStruct", "ptrFile"}

\* the response kind MustResponse returns
RespTypeOf(m) ==
    IF m.types.resp = "ptrFile" THEN RespTypeStream ELSE RespTypeJson

\* MustError panics unless Out(1) implements error
ErrorOK(m) == m.types.errOK

Conforming(m) ==
    /\ ArityOK(m)
    /\ SatisfyContext(m) /\ SatisfyRequest(m)
    /\ ResponseOK(m) /\ ErrorOK(m)

\* what the loop of MakeReflect / makeReflect does with one method
MethodVerdict(rv, m) ==
    IF ~ArityOK(m)
       THEN IF rv = "strict" THEN "panic" ELSE "skip"
       ELSE IF ~SatisfyContext(m) \/ ~SatisfyRequest(m)
               THEN IF rv = "strict" THEN "panic" ELSE "skip"
               ELSE IF rv = "core"
                       \* satisfyResponse accepts every type; a second
                       \* result that is no error skips the method
                       THEN IF ErrorOK(m) THEN "action" ELSE "skip"
                       ELSE IF ~ResponseOK(m) \/ ~ErrorOK(m)
                               THEN "panic"
                               ELSE "action"

\* the type-name check of makeReflect (app revisions); MakeReflect of
\* the kit revision has none
TypeNameRejected(rv, typeName) ==
    CASE rv = "kit"  -> FALSE
      [] rv = "core" -> ~HasSuffix(ToLower(typeName), ToLower(suffixService))
      [] OTHER       -> ~HasSuffix(typeName, suffixService)

\* the service name of the actions of a type
ServiceNameOf(rv, typeName) ==
    IF rv = "core"
       THEN ToSnake(ReplaceAllWithEmpty(ToLower(typeName), ToLower(suffixService)))
       ELSE ServiceName(rv, DefaultSuffixes, typeName)

ReflectAction(rv, svc, i) ==
    [ ServiceName |-> ServiceNameOf(rv, svc.typeName),
      MethodName  |-> ToSnake(MethodNameOf(i)),
      Omitted     |-> IF rv \in {"kit", "core"} THEN FALSE ELSE svc.omitted,
      RespType    |-> IF rv \in {"kit", "core"} THEN RespTypeOf(svc.methods[i])
                      ELSE RespTypeJson,
      method      |-> i ]

RECURSIVE ReflectLoop(_, _, _, _)
ReflectLoop(rv, svc, i, acc) ==
    IF i > Len(svc.methods)
       THEN [panicked |-> FALSE, actions |-> acc]
       ELSE LET verdict == MethodVerdict(rv, svc.methods[i])
            IN  CASE verdict = "panic" ->
                       [panicked |-> TRUE, actions |-> <<>>]
                  [] verdict = "skip" ->
                       ReflectLoop(rv, svc, i + 1, acc)
                  [] OTHER ->
                       ReflectLoop(rv, svc, i + 1,
                                   Append(acc, ReflectAction(rv, svc, i)))

\* MakeReflect / makeReflect on the resolved service
MakeReflect(rv, svc) ==
    IF TypeNameRejected(rv, svc.typeName)
       THEN [panicked |-> TRUE, actions |-> <<>>]
       ELSE ReflectLoop(rv, svc, 1, <<>>)

\* the path fillActions hands to g.POST
RoutePath(action) ==
    IF action.Omitted
       THEN action.MethodName
       ELSE <<"/">> \o action.ServiceName \o <<"/">> \o action.MethodName

DiscoveryInit ==
    /\ rev \in DiscoveryRevs
    /\ \E svc \in ServiceTypes(rev) :
          disc = [step |-> "start", svc |-> svc, actions |-> <<>>, routes |-> {}]
    /\ opt = Unused /\ act = Unused /\ req = Unused
    /\ overload = Unused /\ monitor = Unused /\ tokens = Unused
    /\ names = Unused /\ reg = Unused

\* fillActions: the actions of the service are discovered and a POST
\* route is registered for each; a panic aborts the build
fillActions ==
    /\ disc.step = "start"
    /\ LET found == MakeReflect(rev, disc.svc)
       IN  IF found.panicked
              THEN disc' = [disc EXCEPT !.step = "panicked"]
              ELSE disc' = [disc EXCEPT
                              !.step = "done",
                              !.actions = found.actions,
                              !.routes = { RoutePath(found.actions[k]) :
                                             k \in 1..Len(found.actions) }]
    /\ UNCHANGED <<rev, pipeVars, names, reg>>

DiscoveryNext == fillActions

SpecDiscovery == DiscoveryInit /\ [][DiscoveryNext]_vars

Methods == 1..Len(disc.svc.methods)

HasAction(i) == \E k \in 1..Len(disc.actions) : disc.actions[k].method = i

HasRoute(i) ==
    \E k \in 1..Len(disc.actions) :
        /\ disc.actions[k].method = i
        /\ RoutePath(disc.actions[k]) \in disc.routes

\* the type name ends with a suffix the revision recognizes
HasRecognizedSuffix ==
    CASE rev = "kit"  -> EndsWithSuffix(ToLower(disc.svc.typeName), DefaultSuffixes)
      [] rev = "core" -> HasSuffix(ToLower(disc.svc.typeName), ToLower(suffixService))
      [] OTHER        -> HasSuffix(disc.svc.typeName, suffixService)

\* C6: a method whose arity is not (2 parameters, 2 results) beyond the
\* receiver yields no action and no route and does not make discovery fail,
\* and every conforming method still yields its action.
C6_ArityMismatchSkipped ==
    disc.step # "start" =>
        /\ \A i \in Methods :
              ~ArityOK(disc.svc.methods[i]) => (~HasAction(i) /\ ~HasRoute(i))
        /\ ( /\ HasRecognizedSuffix
             /\ \A i \in Methods :
                   ArityOK(disc.svc.methods[i]) => Conforming(disc.svc.methods[i]) )
              => ( /\ disc.step = "done"
                   /\ \A i \in Methods :
                         Conforming(disc.svc.methods[i])
                             => (HasAction(i) /\ HasRoute(i)) )

\* C7: a service whose type name ends with none of the recognized
\* suffixes is rejected with a panic and gets no route.
C7_UnsuffixedServiceRejected ==
    (disc.step # "start" /\ ~HasRecognizedSuffix)
        => (disc.step = "panicked" /\ disc.routes = {})

\* the method passes the checks made before its results are looked at
PassesEarlierChecks(m) == ArityOK(m) /\ SatisfyContext(m) /\ SatisfyRequest(m)

\* C24: when a method with two parameters and two results, a context
\* first parameter and a Request second parameter has a first result that
\* is no pointer to a struct or a second result that is no error,
\* discovery panics and the service gets no route; methods failing an
\* earlier check are skipped without a panic whatever their results are.
C24_BadResultsPanic ==
    (rev \in {"kit", "core"} /\ disc.step # "start" /\ HasRecognizedSuffix)
        => /\ (\E i \in Methods :
                  /\ PassesEarlierChecks(disc.svc.methods[i])
                  /\ ~ResponseOK(disc.svc.methods[i]) \/ ~ErrorOK(disc.svc.methods[i]))
                 => (disc.step = "panicked" /\ disc.routes = {})
           /\ (\A i \in Methods :
                  PassesEarlierChecks(disc.svc.methods[i])
                      => Conforming(disc.svc.methods[i]))
                 => /\ disc.step = "done"
                    /\ \A i \in Methods :
                          ~PassesEarlierChecks(disc.svc.methods[i]) => ~HasAction(i)

(* ------------------------------------------------------------------ *)
(* SpecRoutes: the POST routes build() registers for the version       *)
(* groups (app revision)                                               *)
(* ------------------------------------------------------------------ *)

Tiers == <<"stable", "beta", "alpha">>

\* what fillGroups appends to "/v%d" for the constructors of a tier
TierSuffix(tier) ==
    CASE tier = "beta"  -> <<"b", "e", "t", "a">>
      [] tier = "alpha" -> <<"a", "l", "p", "h", "a">>
      [] OTHER          -> <<>>

DigitChar(d) == <<"0", "1", "2", "3", "4", "5", "6", "7", "8", "9">>[d + 1]

\* %d of fmt.Sprintf for a number that is not negative
RECURSIVE Decimal(_)
Decimal(n) ==
    IF n < 10 THEN <<DigitChar(n)>>
    ELSE Decimal(n \div 10) \o <<DigitChar(n % 10)>>

\* a group path that leaves the tier out
GroupPathWithoutTier(mainVersion, tier) ==
    <<"/", "v">> \o Decimal(mainVersion)

\* fmt.Sprintf("/v%d", ...), ("/v%dbeta", ...), ("/v%dalpha", ...)
GroupPath(mainVersion, tier) ==
    <<"/", "v">> \o Decimal(mainVersion) \o TierSuffix(tier)

\* the segments of a written path: what is between its slashes, empty
\* segments dropped (path.Join cleans the joined path)
RECURSIVE SegmentsFrom(_, _, _, _)
SegmentsFrom(s, i, cur, acc) ==
    IF i > Len(s)
       THEN IF cur = <<>> THEN acc ELSE Append(acc, cur)
       ELSE IF s[i] = "/"
               THEN SegmentsFrom(s, i + 1, <<>>,
                                 IF cur = <<>> THEN acc ELSE Append(acc, cur))
               ELSE SegmentsFrom(s, i + 1, Append(cur, s[i]), acc)

Segments(s) == SegmentsFrom(s, 1, <<>>, <<>>)

\* gin's joinPaths(absolutePath, relativePath), absolute paths kept as
\* their segments: "/" is <<>>
JoinPaths(absolutePath, relativePath) == absolutePath \o Segments(relativePath)

\* the base URLs given to WithBaseURL: none, and "/a"
BaseURLs == { <<>>, <<"/", "a">> }

\* a method MakeReflect makes an action of, and one it skips
ActionShape ==
    [numIn |-> 3, numOut |-> 2,
     types |-> [ctxOK |-> TRUE, reqOK |-> TRUE, resp |-> "ptrStruct", errOK |-> TRUE]]

SkippedShape == [ActionShape EXCEPT !.numIn = 2]

\* the services the constructors of the groups resolve to: their first
\* method is skipped, the others are actions
RouteService(typeName, omitted) ==
    [ typeName |-> typeName,
      methods  |-> [i \in 1..MaxMethods |->
                      IF i = 1 THEN SkippedShape ELSE ActionShape],
      omitted  |-> omitted ]

ResourceSvc == RouteService(<<"A", "S", "v">>, FALSE)
OmittedSvc  == RouteService(<<"V", "S", "v">>, TRUE)
OmittedTwin == RouteService(<<"S", "S", "v">>, TRUE)

\* the constructors SetStable / SetBeta / SetAlpha collected for a tier
TierLists ==
    { <<>>, <<ResourceSvc>>, <<OmittedSvc>>,
      <<ResourceSvc, OmittedSvc>>, <<OmittedSvc, OmittedTwin>> }

\* the main versions of the groups given to Map (distinct: versionGroups
\* is a map keyed by the main version)
VersionSets == { {1}, {0, 12} }

VersionGroups == [stable : TierLists, beta : TierLists, alpha : TierLists]

\* the constructors of a tier of a group
TierOf(g, tier) ==
    CASE tier = "stable" -> g.stable
      [] tier = "beta"   -> g.beta
      [] OTHER           -> g.alpha

\* a router that lets a later registration replace the entry at its path
RECURSIVE PostActionsLastWins(_, _, _, _, _)
PostActionsLastWins(routes, groupPath, owner, actions, i) ==
    IF i > Len(actions)
       THEN [panicked |-> FALSE, routes |-> routes]
       ELSE LET path == JoinPaths(groupPath, RoutePath(actions[i]))
            IN  PostActionsLastWins(
                   {e \in routes : e.path # path} \cup
                     { [ path    |-> path,
                         version |-> owner[1],
                         tier    |-> owner[2],
                         listed  |-> owner[3],
                         method  |-> actions[i].method ] },
                   groupPath, owner, actions, i + 1)

\* g.POST(route, ...) for the actions from the i-th on: a route table
\* entry per action, a panic when the path is already taken
RECURSIVE PostActions(_, _, _, _, _)
PostActions(routes, groupPath, owner, actions, i) ==
    IF i > Len(actions)
       THEN [panicked |-> FALSE, routes |-> routes]
       ELSE LET path == JoinPaths(groupPath, RoutePath(actions[i]))
            IN  IF \E e \in routes : e.path = path
                   THEN [panicked |-> TRUE, routes |-> routes]
                   ELSE PostActions(
                          routes \cup
                            { [ path    |-> path,
                                version |-> owner[1],
                                tier    |-> owner[2],
                                listed  |-> owner[3],
                                method  |-> actions[i].method ] },
                          groupPath, owner, actions, i + 1)

\* one loop of fillGroups: for each constructor of the tier, from the
\* k-th on, routerGroup.Group(...) and fillActions
RECURSIVE FillTier(_, _, _, _, _, _)
FillTier(routes, basePath, mainVersion, tier, ctors, k) ==
    IF k > Len(ctors)
       THEN [panicked |-> FALSE, routes |-> routes]
       ELSE LET g     == JoinPaths(basePath, GroupPath(mainVersion, tier))
                found == MakeReflect(rev, ctors[k])
                done  == PostActions(routes, g, <<mainVersion, tier, k>>,
                                     found.actions, 1)
            IN  IF found.panicked \/ done.panicked
                   THEN [panicked |-> TRUE, routes |-> done.routes]
                   ELSE FillTier(done.routes, basePath, mainVersion, tier,
                                 ctors, k + 1)

\* fillGroups: the stable, the beta and the alpha constructors, from the
\* t-th tier on
RECURSIVE FillTiers(_, _, _, _, _)
FillTiers(routes, basePath, mainVersion, g, t) ==
    IF t > Len(Tiers)
       THEN [panicked |-> FALSE, routes |-> routes]
       ELSE LET done == FillTier(routes, basePath, mainVersion, Tiers[t],
                                 TierOf(g, Tiers[t]), 1)
            IN  IF done.panicked
                   THEN done
                   ELSE FillTiers(done.routes, basePath, mainVersion, g, t + 1)

RoutesInit ==
    /\ rev = "app"
    /\ \E base \in BaseURLs, vs \in VersionSets :
       \E groups \in [vs -> VersionGroups] :
          disc = [ step    |-> "building",
                   baseURL |-> base,
                   groups  |-> groups,
                   todo    |-> vs,
                   routes  |-> {} ]
    /\ opt = Unused /\ act = Unused /\ req = Unused
    /\ overload = Unused /\ monitor = Unused /\ tokens = Unused
    /\ names = Unused /\ reg = Unused

\* build(): a.fillGroups(r.Group(a.options.baseURL), g) for the next
\* group of the map, in whatever order the map yields them
fillGroups ==
    /\ disc.step = "building"
    /\ \E v \in disc.todo :
          LET basePath == JoinPaths(<<>>, disc.baseURL)
              done     == FillTiers(disc.routes, basePath, v, disc.groups[v], 1)
          IN  disc' = [disc EXCEPT
                         !.routes = done.routes,
                         !.todo   = @ \ {v},
                         !.step   = IF done.panicked THEN "panicked"
                                    ELSE IF disc.todo = {v} THEN "done"
                                    ELSE "building"]
    /\ UNCHANGED <<rev, pipeVars, names, reg>>

RoutesNext == fillGroups

SpecRoutes == RoutesInit /\ [][RoutesNext]_vars

\* the segments the route of an action is expected at: the base, then
\* v{N}{tier}, then the resource unless the service is omitted, then the
\* method
ExpectedRoute(base, mainVersion, tier, svc, method) ==
    (IF base = <<>> THEN <<>> ELSE <<Tail(base)>>)
    \o << <<"v">> \o Decimal(mainVersion) \o TierSuffix(tier) >>
    \o (IF svc.omitted THEN <<>> ELSE <<makeReflectName(svc.typeName)>>)
    \o << ToSnake(MethodNameOf(method)) >>

\* the route table entries made for the method-th method of the k-th
\* constructor of a tier of the group v
EntriesOf(v, tier, k, method) ==
    { e \in disc.routes :
        /\ e.version = v /\ e.tier = tier
        /\ e.listed = k /\ e.method = method }

\* the table entry e belongs to a listed constructor's discovered action
\* and lies at the path expected for it
AtExpectedRoute(e) ==
    /\ e.version \in DOMAIN disc.groups
    /\ e.listed \in 1..Len(TierOf(disc.groups[e.version], e.tier))
    /\ LET svc == TierOf(disc.groups[e.version], e.tier)[e.listed]
       IN  /\ MethodVerdict("app", svc.methods[e.method]) = "action"
           /\ e.path = ExpectedRoute(disc.baseURL, e.version, e.tier, svc, e.method)

\* C15: every route the build registers is the route of a discovered
\* action of a constructor listed in a tier of a group, and lies at
\* {base}/v{N}{""|beta|alpha}/{resource}/{method}, or at
\* {base}/v{N}{""|beta|alpha}/{method} for an omitted service, for the N
\* and the tier the constructor is listed under; once the build is done
\* every such action has exactly one route.
C15_OneRoutePerActionUnderItsPrefix ==
    (rev = "app" /\ disc.step \in {"building", "done", "panicked"}) =>
        /\ \A e \in disc.routes : AtExpectedRoute(e)
        /\ disc.step = "done" =>
              \A v \in DOMAIN disc.groups :
              \A t \in 1..Len(Tiers) :
              \A k \in 1..Len(TierOf(disc.groups[v], Tiers[t])) :
              \A i \in 1..MaxMethods :
                 LET svc == TierOf(disc.groups[v], Tiers[t])[k]
                 IN  MethodVerdict("app", svc.methods[i]) = "action"
                        => Cardinality(EntriesOf(v, Tiers[t], k, i)) = 1

\* a finished build of two groups with the route of an omitted service
\* under a beta prefix and the route of a resource under the alpha prefix
\* of the other group
C15_Witness ==
    /\ disc.step = "done"
    /\ Cardinality(DOMAIN disc.groups) = 2
    /\ disc.baseURL # <<>>
    /\ \E e1, e2 \in disc.routes :
          /\ e1.tier = "beta" /\ Len(e1.path) = 3
          /\ e2.tier = "alpha" /\ Len(e2.path) = 4
          /\ e1.version # e2.version

\* SpecTable: the route table of the kit revision (App.build of
\* unnamed/part_013), whose services have no Omitted attribute and whose
\* resource names come from GenRoute

SecondSvc == RouteService(<<"V", "S", "v">>, FALSE)

\* a service whose type name differs from ResourceSvc's by case only
LowerTwin == RouteService(<<"a", "S", "v">>, FALSE)

KitTierLists ==
    { <<>>, <<ResourceSvc>>, <<ResourceSvc, SecondSvc>>,
      <<ResourceSvc, LowerTwin>> }

TableInit ==
    /\ rev = "kit"
    /\ \E base \in BaseURLs, vs \in VersionSets :
       \E groups \in [vs -> [stable : KitTierLists, beta : KitTierLists,
                             alpha : KitTierLists]] :
          disc = [ step    |-> "building",
                   baseURL |-> base,
                   groups  |-> groups,
                   todo    |-> vs,
                   routes  |-> {} ]
    /\ opt = Unused /\ act = Unused /\ req = Unused
    /\ overload = Unused /\ monitor = Unused /\ tokens = Unused
    /\ names = Unused /\ reg = Unused

SpecTable == TableInit /\ [][RoutesNext]_vars

\* the discovered actions of the configuration: the method-th method of
\* the k-th constructor of a tier of the group v
DiscoveredActions ==
    { a \in UNION { { <<v, t, k, i>> :
                         k \in 1..Len(TierOf(disc.groups[v], Tiers[t])),
                         i \in 1..MaxMethods } :
                     v \in DOMAIN disc.groups, t \in 1..Len(Tiers) } :
        MethodVerdict(rev, TierOf(disc.groups[a[1]], Tiers[a[2]])[a[3]].methods[a[4]])
          = "action" }

\* the final path of a discovered action
FinalPath(a) ==
    LET svc == TierOf(disc.groups[a[1]], Tiers[a[2]])[a[3]]
    IN  JoinPaths(JoinPaths(JoinPaths(<<>>, disc.baseURL),
                            GroupPath(a[1], Tiers[a[2]])),
                  RoutePath(ReflectAction(rev, svc, a[4])))

\* the route table with one entry for each discovered action
FullTable ==
    { [ path |-> FinalPath(a), version |-> a[1], tier |-> Tiers[a[2]],
        listed |-> a[3], method |-> a[4] ] : a \in DiscoveredActions }

Collision ==
    \E a, b \in DiscoveredActions : a # b /\ FinalPath(a) = FinalPath(b)

Handlers == {"h1", "h2"}

\* the fields of the request struct, in the order the decoder meets them
Fields == <<"a", "b">>

Zero == "zero"

Absent == "absent"

FieldValues == {"x", "y"}

\* the JSON bodies: each field absent or given a value
Bodies == [{"a", "b"} -> {Absent} \cup FieldValues]

\* reflect.New(in2).Interface(): a pointer to a zero struct, made once
\* when the action is discovered
NewBindData == [f \in {"a", "b"} |-> Zero]

IdleHandler == [pc |-> "idle", body |-> [f \in {"a", "b"} |-> Absent],
                next |-> 1, arg |-> NewBindData]

BindInit ==
    /\ rev = "kit"
    /\ act = [BindData |-> NewBindData]
    /\ req = [h \in Handlers |-> IdleHandler]
    /\ opt = Unused /\ overload = Unused /\ monitor = Unused
    /\ tokens = Unused /\ names = Unused /\ disc = Unused /\ reg = Unused

\* a request arrives with a body; req := action.BindData copies the
\* interface value, that is the pointer
BindArrive(h) ==
    /\ req[h].pc = "idle"
    /\ \E body \in Bodies :
          req' = [req EXCEPT ![h].pc = "decode", ![h].body = body, ![h].next = 1]
    /\ UNCHANGED <<rev, opt, act, overload, monitor, tokens, names, disc, reg>>

\* c.ShouldBind(&req): json decodes the body into the struct req points
\* to, field by field; a field the body lacks is left as it is
DecodeField(h) ==
    /\ req[h].pc = "decode"
    /\ LET field == Fields[req[h].next]
           value == req[h].body[field]
       IN  /\ act' = IF value = Absent THEN act
                     ELSE [act EXCEPT !.BindData[field] = value]
           /\ req' = [req EXCEPT
                        ![h].next = @ + 1,
                        ![h].pc = IF req[h].next = Len(Fields)
                                     THEN "validate" ELSE "decode"]
    /\ UNCHANGED <<rev, opt, overload, monitor, tokens, names, disc, reg>>

\* i := req.(Request); i.Validate() succeeds; reflect.ValueOf(req).Elem()
\* reads the struct req points to and the method is called with it
CallWithBindData(h) ==
    /\ req[h].pc = "validate"
    /\ req' = [req EXCEPT ![h].pc = "running", ![h].arg = act.BindData]
    /\ UNCHANGED <<rev, opt, act, overload, monitor, tokens, names, disc, reg>>

\* the method returns and the handler with it
BindReturn(h) ==
    /\ req[h].pc = "running"
    /\ req' = [req EXCEPT ![h] = IdleHandler]
    /\ UNCHANGED <<rev, opt, act, overload, monitor, tokens, names, disc, reg>>

BindNext ==
    \/ \E h \in Handlers : BindArrive(h)
    \/ \E h \in Handlers : DecodeField(h)
    \/ \E h \in Handlers : CallWithBindData(h)
    \/ \E h \in Handlers : BindReturn(h)

SpecBind == BindInit /\ [][BindNext]_vars

\* the payload a body decodes to in a fresh zero struct
FreshlyBound(body) ==
    [f \in {"a", "b"} |-> IF body[f] = Absent THEN Zero ELSE body[f]]

\* C16: the payload a request passes to the method is its own body
\* decoded into a fresh copy of the bind prototype: no field holds a
\* value written by another request, and a field absent from the body is
\* zero.
C16_FreshBindDataPerRequest ==
    \A h \in Handlers :
        (rev = "kit" /\ req[h].pc = "running")
            => req[h].arg = FreshlyBound(req[h].body)

(* ------------------------------------------------------------------ *)
(* SpecErrors: known errors, their equality and their response         *)
(* ------------------------------------------------------------------ *)

\* "kit"  internal.KnownError of kit/app/internal/options.go
\* "app"  internalError of app/error.go, with Details
ErrorRevs == {"kit", "app"}

ErrStatuses == {"dup", "gone"}

ErrMessages == {"already exists", "not found"}

\* the details given to NewError (app revision); the kit revision has
\* none
ErrDetails(rv) == IF rv = "app" THEN {"none", "row 7"} ELSE {"none"}

\* the places of the program an error value is constructed at
Sites == {"s1", "s2"}

\* MakeKnownError(status, message) / NewError(status, message, details...)
MakeKnownError(status, message, details, site) ==
    [ typ  |-> "KnownError",
      val  |-> [status |-> status, message |-> message, details |-> details],
      site |-> site ]

KnownErrors(rv) ==
    { MakeKnownError(s, m, d, at) :
        s \in ErrStatuses, m \in ErrMessages, d \in ErrDetails(rv), at \in Sites }

\* errors of other types: a pointer to a known error, and a plain error
OtherErrors(rv) ==
    { [k EXCEPT !.typ = "*KnownError"] : k \in KnownErrors(rv) }
    \cup
    { [ typ  |-> "*errorString",
        val  |-> [status |-> "", message |-> m, details |-> "none"],
        site |-> at ] : m \in ErrMessages, at \in Sites }

\* an equality that compares the two values whole, the place they were
\* constructed at included
KnownErrorIsSame(k, err) == k = err

\* KnownError.Is / internalError.Is: the type assertion, then status and
\* message
KnownErrorIs(k, err) ==
    IF err.typ # "KnownError"
       THEN FALSE
       ELSE k.val.status = err.val.status /\ k.val.message = err.val.message

ErrorsInit ==
    /\ rev \in ErrorRevs
    /\ \E a \in KnownErrors(rev), b \in KnownErrors(rev) \cup OtherErrors(rev) :
          req = [a |-> a, b |-> b, compared |-> FALSE,
                 aIsB |-> FALSE, bIsA |-> FALSE, aIsA |-> FALSE,
                 answered |-> FALSE, resp |-> Response(0, NoBody)]
    /\ opt = Unused /\ act = Unused /\ overload = Unused /\ monitor = Unused
    /\ tokens = Unused /\ names = Unused /\ disc = Unused /\ reg = Unused

\* a.Is(b), a.Is(a) and, b being a known error, b.Is(a)
CompareErrors ==
    /\ ~req.compared
    /\ req' = [req EXCEPT
                 !.compared = TRUE,
                 !.aIsB = KnownErrorIs(req.a, req.b),
                 !.aIsA = KnownErrorIs(req.a, req.a),
                 !.bIsA = IF IsKnownError(req.b)
                             THEN KnownErrorIs(req.b, req.a) ELSE FALSE]
    /\ UNCHANGED <<rev, opt, act, overload, monitor, tokens, names, disc, reg>>

\* a method returns the error a and the handler answers
ReturnError ==
    /\ ~req.answered
    /\ req' = [req EXCEPT
                 !.answered = TRUE,
                 !.resp = HandleReturn(rev, RespTypeJson, "nil",
                                       [typ |-> req.a.typ, val |-> req.a.val], "ok")]
    /\ UNCHANGED <<rev, opt, act, overload, monitor, tokens, names, disc, reg>>

ErrorsNext == CompareErrors \/ ReturnError

SpecErrors == ErrorsInit /\ [][ErrorsNext]_vars

SameStatusAndMessage(a, b) ==
    a.val.status = b.val.status /\ a.val.message = b.val.message

\* C21: a.Is(b) holds exactly when b is a known error with the status and
\* the message of a (so Is is reflexive and symmetric and holds for two
\* values constructed independently with the same fields), a.Is(e) is
\* false for an error of another type, and a returned by a method is
\* answered 409 with a body carrying the status and the message of a.
C21_KnownErrorEqualityByValue ==
    /\ (rev \in ErrorRevs /\ req.compared)
          => /\ req.aIsA
             /\ IsKnownError(req.b)
                   => /\ req.aIsB = SameStatusAndMessage(req.a, req.b)
                      /\ req.bIsA = req.aIsB
             /\ ~IsKnownError(req.b) => ~req.aIsB
    /\ (rev \in ErrorRevs /\ req.answered)
          => /\ req.resp.status = StatusConflict
             /\ req.resp.body.key = "error"
             /\ req.resp.body.val.status = req.a.val.status
             /\ req.resp.body.val.message = req.a.val.message

\* two known errors constructed at different places with the same status
\* and message were found equal, and one of them was answered 409
C21_Witness ==
    /\ req.compared /\ req.answered
    /\ IsKnownError(req.b)
    /\ req.a.site # req.b.site
    /\ SameStatusAndMessage(req.a, req.b)
    /\ req.aIsB
    /\ req.resp.status = StatusConflict

(* ------------------------------------------------------------------ *)
(* SpecHandlers: the closures fillActions installs, one per action of  *)
(* a service, and the action each of them uses when a request comes    *)
(* ------------------------------------------------------------------ *)

\* `for _, action := range actions { g.POST(path, func(c) { ... action
\* ... }) }`: the closure refers to the variable action.  A build whose
\* language version is below 1.22 has one variable for the whole loop,
\* a later one has a new variable in each iteration; the sources name no
\* language version
LoopVariables == {"perLoop", "perIteration"}

HandlerRevs == {"kit", "app"}

\* the number of actions MakeReflect found for the service
ActionCounts == 2..(MaxMethods + 2)

\* the variable the closure made in iteration i refers to
CapturedVariable(semantics, i) == IF semantics = "perLoop" THEN 0 ELSE i

HandlersInit ==
    /\ rev \in HandlerRevs
    /\ \E semantics \in LoopVariables, n \in ActionCounts :
          disc = [ semantics |-> semantics,
                   count     |-> n,
                   next      |-> 1,
                   variables |-> [v \in 0..n |-> 0],
                   handlers  |-> [a \in 1..n |-> 0],
                   posted    |-> {},
                   served    |-> [a \in 1..n |-> [bound |-> 0, invoked |-> 0]] ]
    /\ opt = Unused /\ act = Unused /\ req = Unused
    /\ overload = Unused /\ monitor = Unused /\ tokens = Unused
    /\ names = Unused /\ reg = Unused

\* one iteration of the loop: action is assigned the next element, the
\* path is formatted from it now, and the closure is posted at that path
PostHandler ==
    /\ disc.next <= disc.count
    /\ LET i == disc.next
           v == CapturedVariable(disc.semantics, i)
       IN  disc' = [disc EXCEPT
                      !.next = i + 1,
                      !.variables[v] = i,
                      !.handlers[i] = v,
                      !.posted = @ \cup {i}]
    /\ UNCHANGED <<rev, pipeVars, names, reg>>

\* a request to the path of action a, the build being over: the closure
\* reads action.BindData and action.MethodValue from its variable
ServeRoute(a) ==
    /\ disc.next > disc.count
    /\ a \in disc.posted
    /\ LET action == disc.variables[disc.handlers[a]]
       IN  disc' = [disc EXCEPT
                      !.served[a] = [bound |-> action, invoked |-> action]]
    /\ UNCHANGED <<rev, pipeVars, names, reg>>

HandlersNext ==
    \/ PostHandler
    \/ \E a \in 1..(MaxMethods + 2) : ServeRoute(a)

SpecHandlers == HandlersInit /\ [][HandlersNext]_vars

\* C25: the handler posted at the path of an action binds into the
\* request type of that action and invokes the method of that action,
\* never another method of the service.
C25_HandlerUsesItsOwnAction ==
    rev \in HandlerRevs =>
        \A a \in DOMAIN disc.served :
            disc.served[a].invoked # 0
                => /\ disc.served[a].bound = a
                   /\ disc.served[a].invoked = a

(* ------------------------------------------------------------------ *)
(* SpecRegistry: Provide / Load before Run                             *)
(* SpecVersions: Map before Run                                        *)
(* ------------------------------------------------------------------ *)

\* "app"  app.Load over LoadConstructors of ioc (unnamed/part_018)
\* "ioc"  LoadConstructors of kit/core/ioc/ioc.go
\* "kit"  LoadConstructors of kit/app/internal/reflect.go
RegistryRevs == {"app", "ioc", "kit"}

\* most constructors one Provide / Load call lists
MaxCtors == 2

\* most groups one Map call lists
MaxGroups == 2

\* largest major version given to NewGroup
MaxVersion == 1

\* what reflection shows of a value handed to Provide / Load: whether it
\* is a function, whether its name starts with "New", whether it is
\* variadic, how many values it returns, the kind of the first, and the
\* type the container would file it under
Ctor(isFunc, newPrefix, variadic, numOut, outKind, provides) ==
    [ isFunc |-> isFunc, newPrefix |-> newPrefix, variadic |-> variadic,
      numOut |-> numOut, outKind |-> outKind, provides |-> provides ]

Constructors ==
    { Ctor(FALSE, FALSE, FALSE, 0, "none", "none"),
      Ctor(TRUE, TRUE, TRUE, 1, "ptr", "A"),
      Ctor(TRUE, TRUE, FALSE, 2, "ptr", "A"),
      Ctor(TRUE, TRUE, FALSE, 1, "struct", "A"),
      Ctor(TRUE, TRUE, FALSE, 1, "ptr", "A"),
      Ctor(TRUE, FALSE, FALSE, 1, "ptr", "A"),
      Ctor(TRUE, TRUE, FALSE, 1, "interface", "B"),
      Ctor(TRUE, TRUE, FALSE, 1, "interface", "error") }

\* validateConstructor (unnamed/part_018): a function, not variadic, one
\* result of kind pointer or interface
validateConstructor(c) ==
    /\ c.isFunc
    /\ ~c.variadic
    /\ c.numOut = 1
    /\ c.outKind \in {"ptr", "interface"}

\* MustConstructor (kit/core/ioc) and VerifyConstructor (kit/app/internal):
\* the same, and the name of the function starts with "New"
MustConstructor(c) ==
    /\ c.isFunc
    /\ c.newPrefix
    /\ ~c.variadic
    /\ c.numOut = 1
    /\ c.outKind \in {"ptr", "interface"}

\* app.Construct (unnamed/part_001) validates nothing before Provide
Validated(rv, c) ==
    CASE rv = "app"       -> validateConstructor(c)
      [] rv = "construct" -> TRUE
      [] OTHER            -> MustConstructor(c)

\* dig's Provide refuses a value that is not a function, a constructor
\* whose result type is already provided and one whose only result is an
\* error
ProvideRefused(container, c) ==
    \/ ~c.isFunc
    \/ c.provides = "error"
    \/ \E d \in container : d.provides = c.provides

\* the second loop of LoadConstructors: container.Provide for each
\* constructor; the ioc revision drops the error, the others stop at it
RECURSIVE ProvideEach(_, _, _, _)
ProvideEach(rv, container, ctors, i) ==
    IF i > Len(ctors)
       THEN [outcome |-> "ok", container |-> container]
       ELSE IF ProvideRefused(container, ctors[i])
               THEN IF rv = "ioc"
                       THEN ProvideEach(rv, container, ctors, i + 1)
                       ELSE [outcome |-> "failed", container |-> container]
               ELSE ProvideEach(rv, container \cup {ctors[i]}, ctors, i + 1)

\* a loader that provides each constructor as soon as it has validated it
RECURSIVE LoadConstructorsOneLoop(_, _, _)
LoadConstructorsOneLoop(rv, container, ctors) ==
    IF ctors = <<>>
       THEN [outcome |-> "ok", container |-> container]
       ELSE IF ~Validated(rv, Head(ctors))
               THEN [outcome |-> "failed", container |-> container]
               ELSE LoadConstructorsOneLoop(rv, container \cup {Head(ctors)}, Tail(ctors))

\* LoadConstructors: every constructor is validated, then every
\* constructor is provided
LoadConstructors(rv, container, ctors) ==
    IF \E i \in 1..Len(ctors) : ~Validated(rv, ctors[i])
       THEN [outcome |-> "failed", container |-> container]
       ELSE ProvideEach(rv, container, ctors, 1)

\* NewGroup panics on a negative major version
NewGroupPanics(mainVersion) == mainVersion < 0

Versions == {v \in (-1)..MaxVersion : ~NewGroupPanics(v)}

\* the groups the application can build; two for each major version
Groups == [id : {"g", "h"}, MainVersion : Versions]

NoGroup == "none"

\* a loader that stores each group over whatever its version held
RECURSIVE LoadGroupsOverwriting(_, _, _)
LoadGroupsOverwriting(versionGroups, groups, i) ==
    IF i > Len(groups)
       THEN [outcome |-> "ok", versionGroups |-> versionGroups]
       ELSE LoadGroupsOverwriting(
              [versionGroups EXCEPT ![groups[i].MainVersion] = groups[i].id],
              groups, i + 1)

\* LoadGroups: each group is stored under its major version; a version
\* already present panics
RECURSIVE LoadGroups(_, _, _)
LoadGroups(versionGroups, groups, i) ==
    IF i > Len(groups)
       THEN [outcome |-> "ok", versionGroups |-> versionGroups]
       ELSE IF versionGroups[groups[i].MainVersion] # NoGroup
               THEN [outcome |-> "panicked", versionGroups |-> versionGroups]
               ELSE LoadGroups(
                      [versionGroups EXCEPT ![groups[i].MainVersion] = groups[i].id],
                      groups, i + 1)

NoCall == [kind |-> "none", args |-> <<>>, outcome |-> "none", before |-> {}]

RegistryInit ==
    /\ rev \in RegistryRevs
    /\ reg = [ phase         |-> "config",
               container     |-> {},
               versionGroups |-> [v \in Versions |-> NoGroup],
               last          |-> NoCall ]
    /\ opt = Unused /\ act = Unused /\ req = Unused
    /\ overload = Unused /\ monitor = Unused /\ tokens = Unused
    /\ names = Unused /\ disc = Unused

\* App.Provide / app.Load: a failure is a panic
Provide ==
    /\ reg.phase = "config"
    /\ \E k \in 1..MaxCtors : \E ctors \in [1..k -> Constructors] :
          LET got == LoadConstructors(rev, reg.container, ctors)
          IN  reg' = [reg EXCEPT
                        !.phase = IF got.outcome = "ok" THEN "config" ELSE "panicked",
                        !.container = got.container,
                        !.last = [ kind |-> "load", args |-> ctors,
                                   outcome |-> got.outcome,
                                   before |-> reg.container ]]
    /\ UNCHANGED <<rev, pipeVars, names, disc>>

\* App.Map
Map ==
    /\ reg.phase = "config"
    /\ \E k \in 1..MaxGroups : \E groups \in [1..k -> Groups] :
          LET got == LoadGroups(reg.versionGroups, groups, 1)
          IN  reg' = [reg EXCEPT
                        !.phase = IF got.outcome = "ok" THEN "config" ELSE "panicked",
                        !.versionGroups = got.versionGroups,
                        !.last = [ kind |-> "map", args |-> groups,
                                   outcome |-> got.outcome,
                                   before |-> reg.versionGroups ]]
    /\ UNCHANGED <<rev, pipeVars, names, disc>>

\* the embedding application recovers the panic and goes on configuring
Recover ==
    /\ reg.phase = "panicked"
    /\ reg' = [reg EXCEPT !.phase = "config"]
    /\ UNCHANGED <<rev, pipeVars, names, disc>>

\* App.Run: the routes are built and the server listens
Run ==
    /\ reg.phase = "config"
    /\ reg' = [reg EXCEPT !.phase = "serving",
                           !.last = [NoCall EXCEPT !.kind = "run", !.outcome = "ok"]]
    /\ UNCHANGED <<rev, pipeVars, names, disc>>

RegistryNext == Provide \/ Recover \/ Run

SpecRegistry == RegistryInit /\ [][RegistryNext]_vars

\* LoadGroups of kit/app/internal/reflect.go under App.Map
VersionsInit ==
    /\ rev = "kit"
    /\ reg = [ phase         |-> "config",
               container     |-> {},
               versionGroups |-> [v \in Versions |-> NoGroup],
               last          |-> NoCall ]
    /\ opt = Unused /\ act = Unused /\ req = Unused
    /\ overload = Unused /\ monitor = Unused /\ tokens = Unused
    /\ names = Unused /\ disc = Unused

VersionsNext == Map \/ Recover \/ Run

SpecVersions == VersionsInit /\ [][VersionsNext]_vars

\* SpecConstruct: the registration calls of every revision, app.Construct
\* of unnamed/part_001 among them
ConstructRevs == RegistryRevs \cup {"construct"}

ConstructInit ==
    /\ rev \in ConstructRevs
    /\ reg = [ phase         |-> "config",
               container     |-> {},
               versionGroups |-> [v \in Versions |-> NoGroup],
               last          |-> NoCall ]
    /\ opt = Unused /\ act = Unused /\ req = Unused
    /\ overload = Unused /\ monitor = Unused /\ tokens = Unused
    /\ names = Unused /\ disc = Unused

ConstructNext == Provide \/ Recover \/ Run

SpecConstruct == ConstructInit /\ [][ConstructNext]_vars

LastLoad == reg.last.kind = "load"

LastMap == reg.last.kind = "map"

\* the validity the registration rule is stated with
RuleValid(c) ==
    /\ c.isFunc
    /\ ~c.variadic
    /\ c.numOut = 1
    /\ c.outKind \in {"ptr", "interface"}

AllRuleValid == \A i \in 1..Len(reg.last.args) : RuleValid(reg.last.args[i])

AllValidated == \A i \in 1..Len(reg.last.args) : Validated(rev, reg.last.args[i])

SomeRefused ==
    \E i \in 1..Len(reg.last.args) :
       \/ reg.last.args[i].provides = "error"
       \/ \E d \in reg.last.before : d.provides = reg.last.args[i].provides
       \/ \E j \in 1..(i - 1) : reg.last.args[j].provides = reg.last.args[i].provides

C27_OnlyValidConstructorsStored ==
    /\ \A c \in reg.container : RuleValid(c)
    /\ (LastLoad /\ ~AllRuleValid) =>
          reg.last.outcome = "failed" /\ reg.container = reg.last.before

\* the first listed group whose major version is taken, by the table
\* before the call or by an earlier group of the call; 0 when none
FirstDuplicate ==
    LET dup == { i \in 1..Len(reg.last.args) :
                   \/ reg.last.before[reg.last.args[i].MainVersion] # NoGroup
                   \/ \E j \in 1..(i - 1) :
                         reg.last.args[j].MainVersion = reg.last.args[i].MainVersion }
    IN  IF dup = {} THEN 0 ELSE CHOOSE i \in dup : \A k \in dup : i <= k

\* C10: the version table holds at most one group for each major
\* version; a Map call that offers a group whose major version is
\* already taken panics there, before Run, and the group registered
\* first stays in the table
C10_DuplicateVersionPanics ==
    /\ reg.phase \in {"config", "panicked", "serving"}
    /\ \A v \in Versions :
          reg.versionGroups[v] # NoGroup =>
             [id |-> reg.versionGroups[v], MainVersion |-> v] \in Groups
    /\ LastMap =>
          /\ \A v \in Versions :
                reg.last.before[v] # NoGroup =>
                   reg.versionGroups[v] = reg.last.before[v]
          /\ FirstDuplicate # 0 =>
                /\ reg.last.outcome = "panicked"
                /\ reg.phase # "serving"
                /\ \A j \in 1..(FirstDuplicate - 1) :
                      reg.versionGroups[reg.last.args[j].MainVersion] = reg.last.args[j].id
                /\ \A j \in FirstDuplicate..Len(reg.last.args) :
                      \A v \in Versions :
                         (/\ reg.last.args[j].MainVersion = v
                          /\ reg.last.before[v] = NoGroup
                          /\ \A k \in 1..(FirstDuplicate - 1) :
                                reg.last.args[k].MainVersion # v)
                         => reg.versionGroups[v] = NoGroup
          /\ FirstDuplicate = 0 => reg.last.outcome = "ok"

\* a Map call offered another group for a version the table held; it
\* panicked and the table still holds the first group
C10_Witness ==
    /\ LastMap
    /\ reg.phase = "panicked"
    /\ \E i \in 1..Len(reg.last.args) :
          /\ reg.last.before[reg.last.args[i].MainVersion] # NoGroup
          /\ reg.last.before[reg.last.args[i].MainVersion] # reg.last.args[i].id
          /\ reg.versionGroups[reg.last.args[i].MainVersion]
                = reg.last.before[reg.last.args[i].MainVersion]

(* ------------------------------------------------------------------ *)
(* SpecResolve: the services are resolved while the routes are built   *)
(* ------------------------------------------------------------------ *)

\* "app"  ResolveConstructor of unnamed/part_018 under fillActions of app/gin.go
\* "ioc"  ResolveConstructor of kit/core/ioc/ioc.go under fillActions of
\*        unnamed/part_019
\* "kit"  MakeReflect of kit/app/internal/reflect.go
ResolveRevs == {"app", "ioc", "kit"}

\* a constructor listed in a tier: what reflection shows of it, and
\* whether the container can supply every parameter of it
TierConstructors == [ctor : Constructors, invocable : BOOLEAN]

\* ResolveConstructor: the constructor is validated, then invoked through
\* the container.  unnamed/part_018 returns either error; kit/core/ioc
\* panics in MustConstructor, drops the error of Invoke and returns the
\* reflect.Value of an interface that was never assigned; MakeReflect
\* panics on both
ResolveConstructor(rv, c) ==
    CASE rv = "app" ->
           IF validateConstructor(c.ctor) /\ c.invocable
              THEN [panics |-> FALSE, err |-> "nil", value |-> "value"]
              ELSE [panics |-> FALSE, err |-> "err", value |-> "nil"]
      [] rv = "ioc" ->
           IF ~MustConstructor(c.ctor)
              THEN [panics |-> TRUE, err |-> "nil", value |-> "nil"]
              ELSE IF c.invocable
                      THEN [panics |-> FALSE, err |-> "nil", value |-> "value"]
                      ELSE [panics |-> FALSE, err |-> "nil", value |-> "zero"]
      [] OTHER ->
           IF MustConstructor(c.ctor) /\ c.invocable
              THEN [panics |-> FALSE, err |-> "nil", value |-> "value"]
              ELSE [panics |-> TRUE, err |-> "nil", value |-> "nil"]

\* a route builder that goes on unless the resolver panicked or returned
\* an error
FillActionsPanicsOnError(rv, got) == got.panics \/ got.err # "nil"

\* fillActions: a panic of the resolver passes through, a returned error
\* is panicked with, and makeReflect asks a zero reflect.Value for its
\* type, which panics
FillActionsPanics(rv, got) ==
    \/ got.panics
    \/ got.err # "nil"
    \/ got.value = "zero"

ResolveInit ==
    /\ rev \in ResolveRevs
    /\ \E k \in 1..MaxCtors : \E ctors \in [1..k -> TierConstructors] :
          disc = [ phase  |-> "building",
                   ctors  |-> ctors,
                   values |-> <<>>,
                   served |-> 0 ]
    /\ opt = Unused /\ act = Unused /\ req = Unused
    /\ overload = Unused /\ monitor = Unused /\ tokens = Unused
    /\ names = Unused /\ reg = Unused

\* build: fillActions for the next constructor of the tier
FillActions ==
    /\ disc.phase = "building"
    /\ Len(disc.values) < Len(disc.ctors)
    /\ LET got == ResolveConstructor(rev, disc.ctors[Len(disc.values) + 1])
       IN  disc' = [disc EXCEPT
                      !.values = Append(@, got.value),
                      !.phase = IF FillActionsPanics(rev, got)
                                   THEN "panicked" ELSE "building"]
    /\ UNCHANGED <<rev, pipeVars, names, reg>>

\* Run: after build returns the server listens
Listen ==
    /\ disc.phase = "building"
    /\ Len(disc.values) = Len(disc.ctors)
    /\ disc' = [disc EXCEPT !.phase = "listening"]
    /\ UNCHANGED <<rev, pipeVars, names, reg>>

\* a request is handled: the handler calls the method on the value its
\* closure holds
HandleRequest ==
    /\ disc.phase = "listening"
    /\ disc.served < MaxReq
    /\ disc' = [disc EXCEPT !.served = @ + 1]
    /\ UNCHANGED <<rev, pipeVars, names, reg>>

ResolveNext == FillActions \/ Listen \/ HandleRequest

SpecResolve == ResolveInit /\ [][ResolveNext]_vars

\* C26: constructors are resolved only while the routes are built.  A
\* resolution that fails panics the build, so the server listens only
\* when every constructor of the tier has been resolved to a value, and
\* handling a request resolves nothing
C26_ResolvedOnlyWhileBuilding ==
    /\ [](disc.phase = "listening" =>
             /\ Len(disc.values) = Len(disc.ctors)
             /\ \A i \in 1..Len(disc.values) : disc.values[i] = "value")
    /\ []((\E i \in 1..Len(disc.values) : disc.values[i] # "value") =>
             disc.phase = "panicked")
    /\ [][disc.phase = "listening" => disc'.values = disc.values]_vars

\* a server that listens after two constructors were resolved and has
\* handled a request
C26_Witness ==
    /\ disc.phase = "listening"
    /\ Len(disc.values) = 2
    /\ disc.served > 0

\* a build that panicked on its second constructor, the first resolved
C26_WitnessFailure ==
    /\ disc.phase = "panicked"
    /\ Len(disc.values) = 2
    /\ disc.values[1] = "value"

====
